---- MODULE Spec2Model ----
(***************************************************************************)
(* Model of the location-specification resolution pipeline:                *)
(*   coordinates_fetcher.py  (CoordinatesFetcher: cache, variants, fetch)   *)
(*   embed_coordinates.py    (PlacesEmbedder: parse and composite build)    *)
(*   city_configs.py         (CityConfig tables)                            *)
(*                                                                         *)
(* Strings are sequences of tokens.  A token is a maximal piece of text    *)
(* that none of the regular expressions or string operations of the code   *)
(* looks inside: a word, a literal keyword of a pattern, a run of digits,  *)
(* or one blank (SP).  Coordinates are integers in micro-degrees.          *)
(***************************************************************************)
EXTENDS Integers, Sequences, FiniteSets, TLC

\* ------------------------------------------------------------------------
\* Bounds of the model
\* ------------------------------------------------------------------------
MaxCalls == 2

\* ------------------------------------------------------------------------
\* Text layer: Python str operations on token sequences
\* ------------------------------------------------------------------------
SP == " "

IsDigitTok(tok) == tok \in {"5", "7"}

\* str.lower() on one token
LowerTok(tok) ==
  CASE tok = "Via" -> "via"
    [] tok = "Viale" -> "viale"
    [] tok = "Piazza" -> "piazza"
    [] tok = "Piazzale" -> "piazzale"
    [] tok = "Corso" -> "corso"
    [] tok = "Largo" -> "largo"
    [] tok = "Roma" -> "roma"
    [] tok = "Turati" -> "turati"
    [] tok = "Filippo" -> "filippo"
    [] tok = "F." -> "f."
    [] tok = "Giolitti" -> "giolitti"
    [] tok = "Giovanni" -> "giovanni"
    [] tok = "G." -> "g."
    [] tok = "Amendola" -> "amendola"
    [] tok = "La" -> "la"
    [] tok = "Marmora" -> "marmora"
    [] tok = "Lamarmora" -> "lamarmora"
    [] tok = "Sottopasso" -> "sottopasso"
    [] tok = "Sottopassaggio" -> "sottopassaggio"
    [] tok = "Turbigo" -> "turbigo"
    [] tok = "Pettinelli" -> "pettinelli"
    [] tok = "Pieralice" -> "pieralice"
    [] tok = "Anastasio" -> "anastasio"
    [] tok = "II" -> "ii"
    [] tok = "Secondo" -> "secondo"
    [] tok = "Duomo" -> "duomo"
    [] tok = "del" -> "del"
    [] tok = "Meda" -> "meda"
    [] tok = "A" -> "a"
    [] tok = "B" -> "b"
    [] tok = "C" -> "c"
    [] tok = "XII" -> "xii"
    [] OTHER -> tok

\* str.lower()
Lower(t) == [i \in 1..Len(t) |-> LowerTok(t[i])]

\* s[a:] and s[:b] with 1-based inclusive bounds
From(t, a) == SubSeq(t, a, Len(t))
Upto(t, b) == SubSeq(t, 1, b)

\* str.startswith
StartsWith(t, p) == Len(p) <= Len(t) /\ Upto(t, Len(p)) = p

\* number of blanks at the start / at the end of t
RECURSIVE LeadingBlanks(_)
LeadingBlanks(t) ==
  IF t = <<>> \/ Head(t) # SP THEN 0 ELSE 1 + LeadingBlanks(Tail(t))

RECURSIVE TrailingBlanks(_)
TrailingBlanks(t) ==
  IF t = <<>> \/ t[Len(t)] # SP THEN 0 ELSE 1 + TrailingBlanks(Upto(t, Len(t) - 1))

\* str.strip()
Strip(t) ==
  IF LeadingBlanks(t) = Len(t) THEN <<>>
  ELSE SubSeq(t, LeadingBlanks(t) + 1, Len(t) - TrailingBlanks(t))

\* "p in t" (substring test), on whole tokens
Contains(t, p) ==
  \E i \in 0..(Len(t) - Len(p)) : SubSeq(t, i + 1, i + Len(p)) = p

\* str.split(): the maximal blank-free pieces, each one a token sequence
RECURSIVE SplitWords(_)
SplitWords(t) ==
  LET s == From(t, LeadingBlanks(t) + 1)
  IN IF s = <<>> THEN <<>>
     ELSE LET n == CHOOSE k \in 1..Len(s) :
                     /\ \A j \in 1..k : s[j] # SP
                     /\ (k = Len(s) \/ s[k + 1] = SP)
          IN <<Upto(s, n)>> \o SplitWords(From(s, n + 1))

\* " ".join(words)
RECURSIVE JoinWords(_)
JoinWords(ws) ==
  IF ws = <<>> THEN <<>>
  ELSE IF Len(ws) = 1 THEN ws[1]
  ELSE ws[1] \o <<SP>> \o JoinWords(Tail(ws))

\* ------------------------------------------------------------------------
\* Ordered dictionaries (Python dict): a sequence of [k, v] in insertion order
\* ------------------------------------------------------------------------
HasKey(d, key) == \E i \in 1..Len(d) : d[i].k = key
Get(d, key) == d[CHOOSE i \in 1..Len(d) : d[i].k = key].v

\* d[key] = val : an existing key keeps its position, a new key goes last
Put(d, key, val) ==
  IF HasKey(d, key)
  THEN [i \in 1..Len(d) |-> IF d[i].k = key THEN [k |-> key, v |-> val] ELSE d[i]]
  ELSE Append(d, [k |-> key, v |-> val])

\* ------------------------------------------------------------------------
\* City registry (city_configs.py).  Bounding boxes are
\* <<south, west, north, east>> in micro-degrees.
\* ------------------------------------------------------------------------
RomeConfig ==
  [ city_name |-> "Roma",
    city_pattern |-> "Roma",
    default_bbox |-> <<41800000, 12400000, 42000000, 12600000>>,
    zone_bboxes |-> <<
      [k |-> <<"esquilino">>, v |-> <<41888000, 12495000, 41905000, 12520000>>],
      [k |-> <<"tuscolano">>, v |-> <<41872067, 12508718, 41884657, 12539617>>],
      [k |-> <<"valle", "_", "aurelia">>, v |-> <<41889000, 12410000, 41925000, 12460000>>] >>,
    zone_mappings |-> <<
      [k |-> <<"zona", "_", "esquilino">>, v |-> <<"esquilino">>],
      [k |-> <<"zona", "_", "stazione", "_", "termini", "_", "esquilino">>, v |-> <<"esquilino">>],
      [k |-> <<"zona", "_", "tuscolano">>, v |-> <<"tuscolano">>],
      [k |-> <<"zona", "_", "valle", "_", "aurelia">>, v |-> <<"valle", "_", "aurelia">>],
      [k |-> <<"assi", "_", "viari", "_", "inclusi", "_", "nel", "_", "perimetro", "_",
               "zona", "_", "valle", "_", "aurelia">>, v |-> <<"valle", "_", "aurelia">>] >>,
    special_cases |-> <<
      [k |-> <<"la", SP, "marmora">>,
       v |-> [list |-> TRUE, items |-> << <<"La", SP, "Marmora">>, <<"Lamarmora">> >>]],
      [k |-> <<"sottopasso">>,
       v |-> [list |-> TRUE, items |-> << <<"Sottopasso">>, <<"Sottopassaggio">> >>]],
      [k |-> <<"pettinelli">>,
       v |-> [list |-> TRUE, items |-> << <<"Turbigo">> >>]],
      [k |-> <<"turati">>,
       v |-> [list |-> TRUE, items |-> << <<"Filippo", SP, "Turati">>, <<"F.", SP, "Turati">> >>]],
      [k |-> <<"giolitti">>,
       v |-> [list |-> TRUE, items |-> << <<"Giovanni", SP, "Giolitti">>, <<"G.", SP, "Giolitti">> >>]],
      [k |-> <<"amendola">>,
       v |-> [list |-> TRUE, items |-> << <<"Giovanni", SP, "Amendola">>, <<"G.", SP, "Amendola">> >>]],
      [k |-> <<"giacinto", SP, "de", SP, "vecchi", SP, "pieralice">>,
       v |-> [list |-> TRUE, items |-> << <<"Pieralice">> >>]],
      [k |-> <<"anastasio", SP, "II">>,
       v |-> [list |-> TRUE, items |-> << <<"Anastasio", SP, "Secondo">> >>]] >> ]

\* Milan: the default bbox, the zone 'zona_duomo' with its alias 'duomo', and
\* four of the special cases (one of them the empty-string replacement)
MilanConfig ==
  [ city_name |-> "Milano",
    city_pattern |-> "Milano",
    default_bbox |-> <<45352097, 8980637, 45590120, 9385071>>,
    zone_bboxes |-> <<
      [k |-> <<"zona", "_", "duomo">>, v |-> <<45460000, 9175000, 45470000, 9205000>>],
      [k |-> <<"stazione", "_", "centrale">>, v |-> <<45468000, 9192000, 45494000, 9215000>>] >>,
    zone_mappings |-> <<
      [k |-> <<"duomo">>, v |-> <<"zona", "_", "duomo">>],
      [k |-> <<"zona", "_", "stazione", "_", "centrale">>, v |-> <<"stazione", "_", "centrale">>] >>,
    special_cases |-> <<
      [k |-> <<"duomo">>,
       v |-> [list |-> TRUE, items |-> << <<"Duomo">>, <<"Piazza", SP, "del", SP, "Duomo">>,
                                          <<"Piazza", SP, "Duomo">> >>]],
      [k |-> <<"meda">>,
       v |-> [list |-> TRUE, items |-> << <<"Filippo", SP, "Meda">> >>]],
      [k |-> <<SP, "(lato numeri pari)">>,
       v |-> [list |-> FALSE, items |-> <<>>]],
      [k |-> <<"padova">>,
       v |-> [list |-> TRUE, items |-> << <<"Viale", SP, "Padova">> >>]] >> ]

CITIES == <<[k |-> "RM", v |-> RomeConfig], [k |-> "MI", v |-> MilanConfig]>>

CityPrefixes == {CITIES[i].k : i \in 1..Len(CITIES)}

\* ------------------------------------------------------------------------
\* Zone bounding boxes (coordinates_fetcher.py, get_zone_bbox / union_bboxes)
\* ------------------------------------------------------------------------
NoBbox == <<>>          \* Python None
ZeroBbox == <<0, 0, 0, 0>>

\* str.replace(p, "") : remove every occurrence of p, left to right
RECURSIVE RemoveAll(_, _)
RemoveAll(t, p) ==
  IF t = <<>> \/ p = <<>> THEN t
  ELSE IF StartsWith(t, p) THEN RemoveAll(From(t, Len(p) + 1), p)
  ELSE <<Head(t)>> \o RemoveAll(Tail(t), p)

\* str.replace(a, b) for a single token a
ReplaceTok(t, a, b) == [i \in 1..Len(t) |-> IF t[i] = a THEN b ELSE t[i]]

\* first index of an ordered dict whose entry satisfies Test, 0 when none
FirstIndex(d, Test(_)) ==
  IF \E i \in 1..Len(d) : Test(d[i])
  THEN CHOOSE i \in 1..Len(d) : Test(d[i]) /\ \A j \in 1..(i - 1) : ~Test(d[j])
  ELSE 0

\* the lookup stages shared by both copies of get_zone_bbox
ZoneLookup(city_config, zone_name) ==
  LET zb == city_config.zone_bboxes
      zm == city_config.zone_mappings
      zone_lower == Lower(zone_name)
      zone_clean == Strip(RemoveAll(RemoveAll(RemoveAll(zone_lower, <<".">>),
                                              <<"ff", ".", "ss", ".">>), <<"stazione">>))
      bbox_clean(key) == RemoveAll(RemoveAll(Lower(key), <<"stazione", "_">>), <<"zona", "_">>)
      mapping_clean(key) == ReplaceTok(bbox_clean(key), "_", SP)
      CaseHit(e) == Lower(e.k) = zone_lower
      PartialHit(e) == /\ (Contains(Lower(e.k), zone_lower) \/ Contains(zone_lower, Lower(e.k)))
                       /\ HasKey(zb, e.v)
      CleanHit(e) == Contains(bbox_clean(e.k), zone_clean) \/ Contains(zone_clean, bbox_clean(e.k))
      CleanMapHit(e) == /\ (Contains(mapping_clean(e.k), zone_clean)
                            \/ Contains(zone_clean, mapping_clean(e.k)))
                        /\ HasKey(zb, e.v)
  IN IF HasKey(zb, zone_name) THEN Get(zb, zone_name)
     ELSE IF HasKey(zm, zone_name) /\ HasKey(zb, Get(zm, zone_name))
       THEN Get(zb, Get(zm, zone_name))
     ELSE IF FirstIndex(zb, CaseHit) # 0 THEN zb[FirstIndex(zb, CaseHit)].v
     ELSE IF FirstIndex(zm, PartialHit) # 0 THEN Get(zb, zm[FirstIndex(zm, PartialHit)].v)
     ELSE IF FirstIndex(zb, CleanHit) # 0 THEN zb[FirstIndex(zb, CleanHit)].v
     ELSE IF FirstIndex(zm, CleanMapHit) # 0 THEN Get(zb, zm[FirstIndex(zm, CleanMapHit)].v)
     ELSE NoBbox

\* coordinates_fetcher.get_zone_bbox
get_zone_bbox(city_config, zone_name) ==
  IF StartsWith(zone_name, <<"no", "_">>) THEN ZeroBbox
  ELSE ZoneLookup(city_config, zone_name)

Min(S) == CHOOSE x \in S : \A y \in S : x <= y
Max(S) == CHOOSE x \in S : \A y \in S : x >= y

\* union_bboxes: bboxes is a non-empty or empty sequence of bounding boxes
union_bboxes(bboxes) ==
  IF bboxes = <<>> THEN ZeroBbox
  ELSE << Min({bboxes[i][1] : i \in 1..Len(bboxes)}),
          Min({bboxes[i][2] : i \in 1..Len(bboxes)}),
          Max({bboxes[i][3] : i \in 1..Len(bboxes)}),
          Max({bboxes[i][4] : i \in 1..Len(bboxes)}) >>

\* ------------------------------------------------------------------------
\* Geometries and the bounding-box filter (coordinates_fetcher.py)
\*   Point      : coordinates = <<lat, lon>>
\*   LineString : coordinates = << <<lat, lon>>, ... >>
\*   Polygon    : coordinates = << ring >>, ring = << <<lat, lon>>, ... >>
\* ------------------------------------------------------------------------
Point(p) == [type |-> "Point", coordinates |-> p]
LineString(ps) == [type |-> "LineString", coordinates |-> ps]
Polygon(ring) == [type |-> "Polygon", coordinates |-> <<ring>>]

_is_inside_bbox(coord, bbox) ==
  IF Len(coord) < 2 THEN FALSE
  ELSE bbox[1] <= coord[1] /\ coord[1] <= bbox[3] /\ bbox[2] <= coord[2] /\ coord[2] <= bbox[4]

\* [c for c in coords if inside(c)]
RECURSIVE InsideOnly(_, _)
InsideOnly(coords, bbox) ==
  IF coords = <<>> THEN <<>>
  ELSE (IF _is_inside_bbox(Head(coords), bbox) THEN <<Head(coords)>> ELSE <<>>)
       \o InsideOnly(Tail(coords), bbox)

\* faulty variant: the ring of a Polygon closed again when it is closed already
FilterOne_AlwaysCloses(geom, bbox) ==
  IF geom.type = "Point" THEN
    IF _is_inside_bbox(geom.coordinates, bbox)
    THEN [kept |-> <<geom>>, dropped |-> 0]
    ELSE [kept |-> <<>>, dropped |-> 1]
  ELSE IF geom.type = "LineString" THEN
    LET valid == InsideOnly(geom.coordinates, bbox)
    IN [kept |-> IF valid # <<>> THEN <<LineString(valid)>> ELSE <<>>,
        dropped |-> Len(geom.coordinates) - Len(valid)]
  ELSE IF geom.type = "Polygon" THEN
    LET outer == IF geom.coordinates # <<>> THEN geom.coordinates[1] ELSE <<>>
        valid == InsideOnly(outer, bbox)
    IN [kept |-> IF Len(valid) >= 3 THEN <<Polygon(Append(valid, valid[1]))>> ELSE <<>>,
        dropped |-> Len(outer) - Len(valid)]
  ELSE [kept |-> <<>>, dropped |-> 0]

\* one iteration of the loop of _filter_geometries: the geometries to append
\* and the number of points to add to filtered_count
FilterOne(geom, bbox) ==
  IF geom.type = "Point" THEN
    IF _is_inside_bbox(geom.coordinates, bbox)
    THEN [kept |-> <<geom>>, dropped |-> 0]
    ELSE [kept |-> <<>>, dropped |-> 1]
  ELSE IF geom.type = "LineString" THEN
    LET valid == InsideOnly(geom.coordinates, bbox)
    IN [kept |-> IF valid # <<>> THEN <<LineString(valid)>> ELSE <<>>,
        dropped |-> Len(geom.coordinates) - Len(valid)]
  ELSE IF geom.type = "Polygon" THEN
    LET outer == IF geom.coordinates # <<>> THEN geom.coordinates[1] ELSE <<>>
        valid == InsideOnly(outer, bbox)
        closed == IF valid # <<>> /\ valid[1] # valid[Len(valid)]
                  THEN Append(valid, valid[1]) ELSE valid
    IN [kept |-> IF Len(valid) >= 3 THEN <<Polygon(closed)>> ELSE <<>>,
        dropped |-> Len(outer) - (IF Len(valid) >= 3 THEN Len(closed) ELSE Len(valid))]
  ELSE [kept |-> <<>>, dropped |-> 0]

\* _filter_geometries without its statistics update: [kept, dropped]
RECURSIVE _filter_geometries(_, _)
_filter_geometries(geometries, bbox) ==
  IF geometries = <<>> THEN [kept |-> <<>>, dropped |-> 0]
  ELSE LET h == FilterOne(Head(geometries), bbox)
           r == _filter_geometries(Tail(geometries), bbox)
       IN [kept |-> h.kept \o r.kept, dropped |-> h.dropped + r.dropped]

\* ------------------------------------------------------------------------
\* Name variants (coordinates_fetcher.py, _generate_variants)
\* ------------------------------------------------------------------------
StreetPrefixes ==
  << <<"Via", SP>>, <<"Viale", SP>>, <<"Piazza", SP>>, <<"Piazzale", SP>>,
     <<"Corso", SP>>, <<"Largo", SP>> >>

\* the first prefix the name starts with, <<>> when none
OriginalPrefix(name) ==
  LET Hit(i) == StartsWith(name, StreetPrefixes[i])
  IN IF \E i \in 1..Len(StreetPrefixes) : Hit(i)
     THEN StreetPrefixes[CHOOSE i \in 1..Len(StreetPrefixes) :
                           Hit(i) /\ \A j \in 1..(i - 1) : ~Hit(j)]
     ELSE <<>>

BaseName(name) ==
  IF OriginalPrefix(name) = <<>> THEN name
  ELSE Strip(From(name, Len(OriginalPrefix(name)) + 1))

\* for replacement in replacements: the replacement, then prefix + replacement
RECURSIVE WithPrefix(_, _)
WithPrefix(items, prefix) ==
  IF items = <<>> THEN <<>>
  ELSE <<Head(items)>> \o (IF prefix # <<>> THEN <<prefix \o Head(items)>> ELSE <<>>)
       \o WithPrefix(Tail(items), prefix)

\* first loop over city.special_cases, from entry i on:
\* [abort |-> the loop hit an empty list and returned [], vs |-> variants added]
RECURSIVE SpecialCaseVariants(_, _, _, _)
SpecialCaseVariants(sc, base_lower, prefix, i) ==
  IF i > Len(sc) THEN [abort |-> FALSE, vs |-> <<>>]
  ELSE LET pattern_lower == Lower(sc[i].k)
           rest == SpecialCaseVariants(sc, base_lower, prefix, i + 1)
       IN IF base_lower = pattern_lower \/ Contains(base_lower, pattern_lower)
          THEN IF sc[i].v.list /\ sc[i].v.items = <<>> THEN [abort |-> TRUE, vs |-> <<>>]
               ELSE IF ~sc[i].v.list THEN rest
               ELSE [abort |-> rest.abort, vs |-> WithPrefix(sc[i].v.items, prefix) \o rest.vs]
          ELSE rest

\* words[:i] + [replacement] + words[i+n:], joined by blanks, for each replacement
RECURSIVE WordReplacements(_, _, _, _, _)
WordReplacements(words, i, n, items, prefix) ==
  IF items = <<>> THEN <<>>
  ELSE LET variant == JoinWords(SubSeq(words, 1, i) \o <<Head(items)>>
                                \o SubSeq(words, i + n + 1, Len(words)))
       IN <<variant>> \o (IF prefix # <<>> THEN <<prefix \o variant>> ELSE <<>>)
          \o WordReplacements(words, i, n, Tail(items), prefix)

\* for i in range(len(words) - len(pattern_words) + 1), from offset i on
RECURSIVE WordMatches(_, _, _, _, _)
WordMatches(words, pattern_words, entry, prefix, i) ==
  IF i > Len(words) - Len(pattern_words) THEN <<>>
  ELSE (IF SubSeq(words, i + 1, i + Len(pattern_words)) = pattern_words /\ entry.v.list
        THEN WordReplacements(words, i, Len(pattern_words), entry.v.items, prefix)
        ELSE <<>>)
       \o WordMatches(words, pattern_words, entry, prefix, i + 1)

\* second loop over city.special_cases: partial word matches
RECURSIVE PartialWordVariants(_, _, _, _)
PartialWordVariants(sc, words, prefix, i) ==
  IF i > Len(sc) THEN <<>>
  ELSE WordMatches(words, SplitWords(Lower(sc[i].k)), sc[i], prefix, 0)
       \o PartialWordVariants(sc, words, prefix, i + 1)

\* remove duplicates (compared lower-cased) and empty strings, keep the order
RECURSIVE Dedupe(_, _)
\* faulty variant: the loop of lines 302-308 without the test on 'seen'
Dedupe_KeepAll(variants, seen) ==
  IF variants = <<>> THEN <<>>
  ELSE (IF Strip(Head(variants)) # <<>> THEN <<Strip(Head(variants))>> ELSE <<>>)
       \o Dedupe(Tail(variants), seen)

Dedupe(variants, seen) ==
  IF variants = <<>> THEN <<>>
  ELSE LET v_clean == Strip(Head(variants))
       IN IF v_clean # <<>> /\ Lower(v_clean) \notin seen
          THEN <<v_clean>> \o Dedupe(Tail(variants), seen \cup {Lower(v_clean)})
          ELSE Dedupe(Tail(variants), seen)

_generate_variants(name, city) ==
  LET prefix == OriginalPrefix(name)
      base_name == BaseName(name)
      base_name_lower == Lower(base_name)
      special == SpecialCaseVariants(city.special_cases, base_name_lower, prefix, 1)
      partial == PartialWordVariants(city.special_cases, SplitWords(base_name_lower), prefix, 1)
  IN IF special.abort THEN <<>>
     ELSE Dedupe(<<name>> \o (IF base_name # name THEN <<base_name>> ELSE <<>>)
                 \o special.vs \o partial, {})

\* ------------------------------------------------------------------------
\* The external backend (Nominatim and Overpass), as seen by the fetcher.
\* An HTTP exchange either raises (timeout), or answers with a status code
\* and a body that response.json() can or cannot parse.
\* ------------------------------------------------------------------------
PEsq == <<41900000, 12500000>>     \* inside Rome and inside its zone 'esquilino'
PRm == <<41850000, 12450000>>      \* inside Rome, outside every zone of Rome
PMi == <<45465000, 9190000>>       \* inside Milan and inside its zone 'zona_duomo'
PFar == <<43000000, 11000000>>     \* outside both cities

FailKinds == {"timeout", "non200", "malformed", "empty"}

FailResponse(kind) ==
  [ raises |-> kind = "timeout",
    status_code |-> IF kind = "non200" THEN 500 ELSE 200,
    valid_json |-> kind # "malformed",
    items |-> <<>> ]

OkResponse(items) ==
  [raises |-> FALSE, status_code |-> 200, valid_json |-> TRUE, items |-> items]

\* the body of a response that the code manages to read, <<>> in the cases the
\* code treats as "nothing": exception, status other than 200, unparsable body
Readable(resp) == ~resp.raises /\ resp.status_code = 200 /\ resp.valid_json

\* _search_nominatim: the osm ids of the accepted results
RECURSIVE AcceptedIds(_, _)
AcceptedIds(results, city) ==
  IF results = <<>> THEN <<>>
  ELSE LET r == Head(results)
       IN (IF /\ \/ (r.osm_type \in {"way", "node"} /\ r.class \in {"highway", "leisure", "amenity"})
                  \/ (r.osm_type \in {"way", "node"} /\ r.type = "marketplace")
              /\ r.display_name = city.city_pattern
           THEN <<r.osm_id>> ELSE <<>>)
          \o AcceptedIds(Tail(results), city)

_search_nominatim(resp, city) ==
  IF resp.raises THEN <<>>                       \* except Exception: pass
  ELSE IF resp.status_code # 200 THEN <<>>
  ELSE IF ~resp.valid_json THEN <<>>             \* response.json() raises
  ELSE AcceptedIds(resp.items, city)

\* Python truthiness of "lat and lon"
Truthy(x) == x # 0

\* _get_geometry(osm_id): tags answers the element query, byname the name
\* query.  The result is [geometries, queries], queries being the number of
\* Overpass requests sent.  The local name 'geometries' is never bound in
\* this method, so every path that reaches the element loop (line 510) or the
\* final return (line 532) raises NameError, which line 534 catches: [].
_get_geometry(tags, byname) ==
  IF ~Readable(tags) THEN [geometries |-> <<>>, queries |-> 1]
  ELSE IF tags.items = <<>> THEN [geometries |-> <<>>, queries |-> 1]
  ELSE LET element == tags.items[1]
       IN IF element.type = "node" /\ Truthy(element.lat) /\ Truthy(element.lon)
          THEN [geometries |-> <<Point(<<element.lat, element.lon>>)>>, queries |-> 1]
          ELSE IF ~element.has_name /\ element.amenity # "marketplace"
            THEN [geometries |-> <<>>, queries |-> 1]
          ELSE IF ~element.has_name
            THEN [geometries |-> <<>>, queries |-> 1]       \* 'elements' unbound
          ELSE IF ~Readable(byname)
            THEN [geometries |-> <<>>, queries |-> 2]
          ELSE [geometries |-> <<>>, queries |-> 2]         \* 'geometries' unbound

\* geometry built from one Overpass element with its way geometry
\* (_search_overpass_direct, lines 649-670): <<>> or one geometry
IsClosed(coords) ==
  /\ Len(coords) > 3
  /\ coords[1][1] - coords[Len(coords)][1] < 10 /\ coords[Len(coords)][1] - coords[1][1] < 10
  /\ coords[1][2] - coords[Len(coords)][2] < 10 /\ coords[Len(coords)][2] - coords[1][2] < 10

ElementGeometry(elem) ==
  IF elem.type = "node" THEN
    IF Truthy(elem.lat) /\ Truthy(elem.lon) THEN <<Point(<<elem.lat, elem.lon>>)>> ELSE <<>>
  ELSE IF elem.geometry # <<>> /\ Len(elem.geometry) > 1 THEN
    IF IsClosed(elem.geometry) \/ elem.piazza \/ elem.amenity = "marketplace"
    THEN <<Polygon(IF IsClosed(elem.geometry) THEN elem.geometry
                   ELSE Append(elem.geometry, elem.geometry[1]))>>
    ELSE <<LineString(elem.geometry)>>
  ELSE <<>>

RECURSIVE ElementGeometries(_)
ElementGeometries(elems) ==
  IF elems = <<>> THEN <<>>
  ELSE ElementGeometry(Head(elems)) \o ElementGeometries(Tail(elems))

\* Overpass elements
NodeElement(p) ==
  [type |-> "node", lat |-> p[1], lon |-> p[2], geometry |-> <<>>,
   has_name |-> TRUE, piazza |-> FALSE, amenity |-> ""]
WayElement(coords) ==
  [type |-> "way", lat |-> 0, lon |-> 0, geometry |-> coords,
   has_name |-> TRUE, piazza |-> FALSE, amenity |-> ""]

\* ------------------------------------------------------------------------
\* Direct Overpass search (coordinates_fetcher.py, _search_overpass_direct)
\* ------------------------------------------------------------------------
\* number of characters of a token, 3 standing for "three or more"
TokLen(tok) ==
  CASE tok \in {SP, "5", "7", "A", "B", "a", "b", "e", "_", "."} -> 1
    [] tok \in {"F.", "G.", "f.", "g.", "II", "ii", "La", "la", "de", "no"} -> 2
    [] OTHER -> 3

\* number of alphabetic characters of a token, 3 standing for "three or more"
AlphaLen(tok) ==
  CASE tok \in {SP, "5", "7", "_", "."} -> 0
    [] tok \in {"A", "B", "a", "b", "e", "F.", "G.", "f.", "g."} -> 1
    [] tok \in {"II", "ii", "La", "la", "de", "no"} -> 2
    [] OTHER -> 3

\* ''.join(c for c in tok if c.isalpha()).lower()
AlphaLowerTok(tok) ==
  CASE tok \in {"F.", "f."} -> "f"
    [] tok \in {"G.", "g."} -> "g"
    [] OTHER -> LowerTok(tok)

RECURSIVE CharCount(_)
CharCount(t) == IF t = <<>> THEN 0 ELSE TokLen(Head(t)) + CharCount(Tail(t))

RECURSIVE AlphaCount(_)
AlphaCount(t) == IF t = <<>> THEN 0 ELSE AlphaLen(Head(t)) + AlphaCount(Tail(t))

\* the alphabetic characters of a word, lower-cased
RECURSIVE AlphaLower(_)
AlphaLower(word) ==
  IF word = <<>> THEN <<>>
  ELSE (IF AlphaLen(Head(word)) = 0 THEN <<>> ELSE <<AlphaLowerTok(Head(word))>>)
       \o AlphaLower(Tail(word))

\* a token that contains "("
HasParen(tok) == tok \in {"(fronte civico 5)", "(fronte civico 7)", "(lato numeri pari)"}

\* clean_name.split("(")[0]
BeforeParen(t) ==
  IF \E i \in 1..Len(t) : HasParen(t[i])
  THEN Upto(t, (CHOOSE i \in 1..Len(t) : HasParen(t[i]) /\ \A j \in 1..(i - 1) : ~HasParen(t[j])) - 1)
  ELSE t

RECURSIVE RemoveEach(_, _)
RemoveEach(t, ps) == IF ps = <<>> THEN t ELSE RemoveEach(RemoveAll(t, Head(ps)), Tail(ps))

\* the clean replacements of one special case, kept when 3 characters or more
RECURSIVE CleanReplacements(_)
CleanReplacements(items) ==
  IF items = <<>> THEN <<>>
  ELSE LET clean == Strip(RemoveEach(Head(items),
                      << <<"Via", SP>>, <<"Piazza", SP>>, <<"Viale", SP>>, <<"Corso", SP>> >>))
       IN (IF CharCount(clean) >= 3 THEN <<Lower(clean)>> ELSE <<>>)
          \o CleanReplacements(Tail(items))

\* first significant word of a list of words, <<>> when none
RECURSIVE FirstSignificant(_, _)
FirstSignificant(words, excluded) ==
  IF words = <<>> THEN <<>>
  ELSE IF AlphaCount(Head(words)) >= 3 /\ AlphaLower(Head(words)) \notin excluded
       THEN <<AlphaLower(Head(words))>>
       ELSE FirstSignificant(Tail(words), excluded)

Reverse(s) == [i \in 1..Len(s) |-> s[Len(s) + 1 - i]]

DirectSearchTerms(place_name, city) ==
  LET sc == city.special_cases
      place_lower == Lower(place_name)
      Hit(e) == Contains(place_lower, Lower(e.k)) /\ e.v.list /\ e.v.items # <<>>
      first == FirstIndex(sc, Hit)
      special == IF first # 0 THEN CleanReplacements(sc[first].v.items) ELSE <<>>
      words == SplitWords(BeforeParen(RemoveEach(place_name, StreetPrefixes)))
      last_word == FirstSignificant(Reverse(words), {})
      first_word == FirstSignificant(words, {last_word[i] : i \in 1..Len(last_word)})
  IN IF special # <<>> THEN special ELSE last_word \o first_word

\* the accent-free spelling of a search term
Unaccent(tok) == CASE tok = "cinecittà" -> "cinecitta" [] OTHER -> tok

\* search_variants of one term: the term, then its accent-free spelling
AccentVariants(term) ==
  LET plain == [i \in 1..Len(term) |-> Unaccent(term[i])]
  IN IF plain # term THEN <<term, plain>> ELSE <<term>>

RECURSIVE DirectQueries(_)
DirectQueries(terms) ==
  IF terms = <<>> THEN <<>> ELSE AccentVariants(Head(terms)) \o DirectQueries(Tail(terms))

\* _search_overpass_direct: responses[j] answers the j-th query.  Result:
\* [geometries, queries sent, dropped = points counted into 'zone_filtered']
RECURSIVE DirectLoop(_, _, _, _, _)
\* query j has returned geometries, of which the zones leave zoned
DirectStep(queries, j, zone_bboxes, responses, dropped, geometries, zoned) ==
  IF geometries = <<>> THEN DirectLoop(queries, j + 1, zone_bboxes, responses, dropped)
  ELSE IF zone_bboxes = <<>> THEN [geometries |-> geometries, queries |-> j, dropped |-> dropped]
  ELSE IF zoned.kept # <<>>
    THEN [geometries |-> zoned.kept, queries |-> j, dropped |-> dropped + zoned.dropped]
  ELSE DirectLoop(queries, j + 1, zone_bboxes, responses, dropped + zoned.dropped)

\* the geometries read from one answer to a direct query
DirectGeometries(resp) ==
  IF Readable(resp) THEN ElementGeometries(resp.items) ELSE <<>>

DirectLoop(queries, j, zone_bboxes, responses, dropped) ==
  IF j > Len(queries) THEN [geometries |-> <<>>, queries |-> Len(queries), dropped |-> dropped]
  ELSE DirectStep(queries, j, zone_bboxes, responses, dropped,
                  DirectGeometries(responses[j]),
                  _filter_geometries(DirectGeometries(responses[j]), union_bboxes(zone_bboxes)))

_search_overpass_direct(place_name, city, zone_bboxes, responses) ==
  DirectLoop(DirectQueries(DirectSearchTerms(place_name, city)), 1, zone_bboxes, responses, 0)

\* ------------------------------------------------------------------------
\* Civic addresses (coordinates_fetcher.py, _fetch_civic)
\* ------------------------------------------------------------------------
\* the civic points of one Overpass answer that lie inside the city bbox
RECURSIVE CivicPoints(_, _)
CivicPoints(elems, bbox) ==
  IF elems = <<>> THEN <<>>
  ELSE LET e == Head(elems)
           p == IF e.type = "node" THEN <<e.lat, e.lon>>
                ELSE IF e.geometry # <<>> THEN e.geometry[1] ELSE <<0, 0>>
           usable == IF e.type = "node" THEN Truthy(e.lat) /\ Truthy(e.lon)
                     ELSE e.type = "way" /\ e.geometry # <<>>
       IN (IF usable /\ _is_inside_bbox(p, bbox) THEN <<Point(p)>> ELSE <<>>)
          \o CivicPoints(Tail(elems), bbox)

\* for zone_bbox in zone_bboxes: filter, extend; [kept, dropped]
RECURSIVE FilterPerZone(_, _)
FilterPerZone(geometries, zone_bboxes) ==
  IF zone_bboxes = <<>> THEN [kept |-> <<>>, dropped |-> 0]
  ELSE LET h == _filter_geometries(geometries, Head(zone_bboxes))
           r == FilterPerZone(geometries, Tail(zone_bboxes))
       IN [kept |-> h.kept \o r.kept, dropped |-> h.dropped + r.dropped]

\* remove duplicates, keep the first occurrence
RECURSIVE Unique(_, _)
Unique(geoms, seen) ==
  IF geoms = <<>> THEN <<>>
  ELSE IF Head(geoms) \in seen THEN Unique(Tail(geoms), seen)
  ELSE <<Head(geoms)>> \o Unique(Tail(geoms), seen \cup {Head(geoms)})

\* the loop over the variants of the street, from variant i on.  Result:
\* [found, geometries, queries sent, dropped = points counted into 'zone_filtered']
RECURSIVE CivicLoop(_, _, _, _, _, _)
\* variant i has returned geometries, of which the zones leave zoned
CivicStep(variants, i, city, zone_bboxes, responses, dropped, geometries, zoned) ==
  LET final == IF zone_bboxes # <<>> THEN Unique(zoned.kept, {}) ELSE geometries
      counted == IF geometries # <<>> /\ zone_bboxes # <<>> THEN dropped + zoned.dropped
                 ELSE dropped
  IN IF final # <<>>
     THEN [found |-> TRUE, geometries |-> final, queries |-> i, dropped |-> counted]
     ELSE CivicLoop(variants, i + 1, city, zone_bboxes, responses, counted)

\* the civic points read from one answer
CivicGeometries(resp, city) ==
  IF Readable(resp) THEN CivicPoints(resp.items, city.default_bbox) ELSE <<>>

CivicLoop(variants, i, city, zone_bboxes, responses, dropped) ==
  IF i > Len(variants)
  THEN [found |-> FALSE, geometries |-> <<>>, queries |-> Len(variants), dropped |-> dropped]
  ELSE CivicStep(variants, i, city, zone_bboxes, responses, dropped,
                 CivicGeometries(responses[i], city),
                 FilterPerZone(CivicGeometries(responses[i], city), zone_bboxes))

_fetch_civic(street, city, zone_bboxes, responses) ==
  CivicLoop(_generate_variants(street, city), 1, city, zone_bboxes, responses, 0)

\* re.search(r'^(.+?)\s+civico\s+(\d+)$', place_name): the length of group 1,
\* 0 when the pattern does not match
CivicTail(r) ==
  LET a == LeadingBlanks(r)
      s == From(r, a + 1)
      b == IF s = <<>> THEN 0 ELSE LeadingBlanks(Tail(s))
      d == IF s = <<>> THEN <<>> ELSE From(Tail(s), b + 1)
  IN /\ a >= 1 /\ s # <<>> /\ Head(s) = "civico" /\ b >= 1
     /\ d # <<>> /\ \A i \in 1..Len(d) : IsDigitTok(d[i])

DirectCivicMatch(t) ==
  IF \E i \in 1..Len(t) : CivicTail(From(t, i + 1))
  THEN CHOOSE i \in 1..Len(t) : CivicTail(From(t, i + 1))
                                /\ \A j \in 1..(i - 1) : ~CivicTail(From(t, j + 1))
  ELSE 0

\* ------------------------------------------------------------------------
\* fetch_place (coordinates_fetcher.py)
\* ------------------------------------------------------------------------
\* f"{city_prefix}_{place_name}"
CacheKey(city_prefix, place_name) == <<city_prefix, "_">> \o place_name

\* lines 758-760: the cache holds usable coordinates under the key
CacheHit(self_cache, cache_key) ==
  HasKey(self_cache, cache_key) /\ Get(self_cache, cache_key).geometries # <<>>

\* lines 769-772: the bounding boxes of the zones of the place
\* if bbox: zone_bboxes.append(bbox)
IfBbox(bbox) == IF bbox # NoBbox THEN <<bbox>> ELSE <<>>

RECURSIVE ZoneBboxes(_, _)
ZoneBboxes(city, zones) ==
  IF zones = <<>> THEN <<>>
  ELSE IfBbox(get_zone_bbox(city, Head(zones))) \o ZoneBboxes(city, Tail(zones))

PlaceType(place_name) ==
  IF Contains(Lower(place_name), <<"piazza">>) THEN "square" ELSE "street"

\* for osm_id in osm_ids: all_geometries.extend(self._get_geometry(...))
RECURSIVE AllGeometries(_, _, _)
AllGeometries(osm_ids, tags, byname) ==
  IF osm_ids = <<>> THEN [geometries |-> <<>>, queries |-> 0]
  ELSE LET h == _get_geometry(tags, byname)
           r == AllGeometries(Tail(osm_ids), tags, byname)
       IN [geometries |-> h.geometries \o r.geometries, queries |-> h.queries + r.queries]

\* 1 when the answer gave the code something to read, 0 when it failed
\* (exception, status other than 200, unparsable body, no results)
Answered(resp) == IF Readable(resp) /\ resp.items # <<>> THEN 1 ELSE 0

RECURSIVE CountAnswered(_, _)
CountAnswered(responses, n) ==
  IF n = 0 THEN 0 ELSE Answered(responses[n]) + CountAnswered(responses, n - 1)

\* One pass of the loop "for variant in variants" (lines 796-819): what the
\* searches for this variant returned and what the two filters left of it.
\* Each assignment of the loop body is the last argument of the next operator.
\* lines 803-817: the pass once the geometries of the identifiers are
\* collected (all) and filtered by the bounding box of the city (city_f)
FilteredPass(variant, zone_bboxes, answer, osm_ids, all, city_f) ==
  LET zone_f == _filter_geometries(city_f.kept, union_bboxes(zone_bboxes))
      zoned == zone_bboxes # <<>> /\ city_f.kept # <<>>
  IN [ variant |-> variant,
       osm_ids |-> osm_ids,
       overpass_queries |-> all.queries,
       answered |-> Answered(answer.nominatim)
                    + (IF all.queries >= 1 THEN Answered(answer.tags) ELSE 0)
                    + (IF all.queries >= 2 THEN Answered(answer.byname) ELSE 0),
       all_geometries |-> all.geometries,
       final_geometries |-> IF all.geometries = <<>> THEN <<>>
                            ELSE IF zoned THEN zone_f.kept ELSE city_f.kept,
       filtered |-> IF all.geometries = <<>> THEN 0 ELSE city_f.dropped,
       zone_filtered |-> IF all.geometries # <<>> /\ zoned THEN zone_f.dropped ELSE 0 ]

\* lines 796-807: the pass once Nominatim has answered (osm_ids) and the
\* geometries of the identifiers are collected (all)
CollectedPass(variant, city, zone_bboxes, answer, osm_ids, all) ==
  FilteredPass(variant, zone_bboxes, answer, osm_ids, all,
               _filter_geometries(all.geometries, city.default_bbox))

TryVariant(variant, city, zone_bboxes, answer) ==
  CollectedPass(variant, city, zone_bboxes, answer,
                _search_nominatim(answer.nominatim, city),
                AllGeometries(_search_nominatim(answer.nominatim, city),
                              answer.tags, answer.byname))

\* the loop over the variants from variant i on: the passes made, in order;
\* the loop is left at the first pass with final geometries (line 829)
RECURSIVE VariantLoop(_, _, _, _, _)
\* faulty variant: the loop without the break of line 829
VariantLoop_NoBreak(variants, i, city, zone_bboxes, answers) ==
  IF i > Len(variants) THEN <<>>
  ELSE <<TryVariant(variants[i], city, zone_bboxes, answers[i])>>
       \o VariantLoop(variants, i + 1, city, zone_bboxes, answers)

\* lines 819-829: after pass i, leave the loop or go on with variant i + 1
AfterPass(pass, variants, i, city, zone_bboxes, answers) ==
  IF pass.final_geometries # <<>> THEN <<pass>>
  ELSE <<pass>> \o VariantLoop(variants, i + 1, city, zone_bboxes, answers)

VariantLoop(variants, i, city, zone_bboxes, answers) ==
  IF i > Len(variants) THEN <<>>
  ELSE AfterPass(TryVariant(variants[i], city, zone_bboxes, answers[i]),
                 variants, i, city, zone_bboxes, answers)

RECURSIVE SumField(_, _)
SumField(passes, f) ==
  IF passes = <<>> THEN 0 ELSE Head(passes)[f] + SumField(Tail(passes), f)

\* faulty variant: a cache hit counted as a fetch
FetchCached_AsFetched(self_cache, self_stats) ==
  [ ret |-> "True", path |-> "cache", cache |-> self_cache,
    stats |-> [self_stats EXCEPT !.fetched = @ + 1],
    passes |-> <<>>, nominatim |-> 0, overpass |-> 0, answered |-> 0 ]

\* lines 761-763: answered from the cache
FetchCached(self_cache, self_stats) ==
  [ ret |-> "True", path |-> "cache", cache |-> self_cache,
    stats |-> [self_stats EXCEPT !.cached = @ + 1],
    passes |-> <<>>, nominatim |-> 0, overpass |-> 0, answered |-> 0 ]

\* faulty variant: a civic lookup that fails is left out of the statistics
CivicOutcome_UncountedFailure(self_cache, self_stats, cache_key, be, r) ==
  LET st == [self_stats EXCEPT !.zone_filtered = @ + r.dropped]
  IN [ ret |-> IF r.found THEN "True" ELSE "False", path |-> "civic",
       cache |-> IF r.found
                 THEN Put(self_cache, cache_key, [type |-> "civic", geometries |-> r.geometries])
                 ELSE self_cache,
       stats |-> IF r.found THEN [st EXCEPT !.fetched = @ + 1] ELSE st,
       passes |-> <<>>, nominatim |-> 0, overpass |-> r.queries,
       answered |-> CountAnswered(be.civic, r.queries) ]

\* lines 779-788: the civic path, r being what _fetch_civic returned
CivicOutcome(self_cache, self_stats, cache_key, be, r) ==
  LET st == [self_stats EXCEPT !.zone_filtered = @ + r.dropped]
  IN IF r.found
     THEN [ ret |-> "True", path |-> "civic",
            cache |-> Put(self_cache, cache_key, [type |-> "civic", geometries |-> r.geometries]),
            stats |-> [st EXCEPT !.fetched = @ + 1],
            passes |-> <<>>, nominatim |-> 0, overpass |-> r.queries,
            answered |-> CountAnswered(be.civic, r.queries) ]
     ELSE [ ret |-> "False", path |-> "civic", cache |-> self_cache,
            stats |-> [st EXCEPT !.failed = @ + 1],
            passes |-> <<>>, nominatim |-> 0, overpass |-> r.queries,
            answered |-> CountAnswered(be.civic, r.queries) ]

FetchCivic(self_cache, self_stats, cache_key, street, city, zone_bboxes, be) ==
  CivicOutcome(self_cache, self_stats, cache_key, be,
               _fetch_civic(street, city, zone_bboxes, be.civic))

\* faulty variant: a failed lookup stored in the cache as an empty entry
DirectOutcome_CachesFailure(self_cache, self_stats, place_name, passes, be, d) ==
  LET st == [self_stats EXCEPT !.zone_filtered = @ + d.dropped]
  IN [ ret |-> IF d.geometries # <<>> THEN "True" ELSE "False",
       path |-> "direct",
       cache |-> Put(self_cache, place_name,
                     [type |-> PlaceType(place_name), geometries |-> d.geometries]),
       stats |-> IF d.geometries # <<>> THEN [st EXCEPT !.fetched = @ + 1]
                 ELSE [st EXCEPT !.failed = @ + 1],
       passes |-> passes, nominatim |-> Len(passes),
       overpass |-> SumField(passes, "overpass_queries") + d.queries,
       answered |-> SumField(passes, "answered") + CountAnswered(be.direct, d.queries) ]

FetchDirect_CachesFailure(self_cache, self_stats, place_name, city, zone_bboxes, passes, be) ==
  DirectOutcome_CachesFailure(self_cache, self_stats, place_name, passes, be,
                              _search_overpass_direct(place_name, city, zone_bboxes, be.direct))

\* lines 831-846: the direct Overpass fallback and the final failure, d being
\* what _search_overpass_direct returned
DirectOutcome(self_cache, self_stats, place_name, passes, be, d) ==
  LET st == [self_stats EXCEPT !.zone_filtered = @ + d.dropped]
      sent == Len(passes)
      answered == SumField(passes, "answered") + CountAnswered(be.direct, d.queries)
  IN IF d.geometries # <<>>
     THEN [ ret |-> "True", path |-> "direct",
            cache |-> Put(self_cache, place_name,
                          [type |-> PlaceType(place_name), geometries |-> d.geometries]),
            stats |-> [st EXCEPT !.fetched = @ + 1],
            passes |-> passes, nominatim |-> sent,
            overpass |-> SumField(passes, "overpass_queries") + d.queries,
            answered |-> answered ]
     ELSE [ ret |-> "False", path |-> "direct", cache |-> self_cache,
            stats |-> [st EXCEPT !.failed = @ + 1],
            passes |-> passes, nominatim |-> sent,
            overpass |-> SumField(passes, "overpass_queries") + d.queries,
            answered |-> answered ]

FetchDirect(self_cache, self_stats, place_name, city, zone_bboxes, passes, be) ==
  DirectOutcome(self_cache, self_stats, place_name, passes, be,
                _search_overpass_direct(place_name, city, zone_bboxes, be.direct))

\* lines 790-829: the variant path, then the fallback, passes being the
\* passes the variant loop made
VariantOutcome(self_cache, self_stats, cache_key, place_name, city, zone_bboxes, be, passes) ==
  LET st == [self_stats EXCEPT !.filtered = @ + SumField(passes, "filtered"),
                          !.zone_filtered = @ + SumField(passes, "zone_filtered")]
      final == passes[Len(passes)]
  IN IF passes # <<>> /\ final.final_geometries # <<>>
     THEN [ ret |-> "True", path |-> "variant",
            cache |-> Put(self_cache, cache_key,
                          [type |-> PlaceType(place_name), geometries |-> final.final_geometries]),
            stats |-> [st EXCEPT !.fetched = @ + 1],
            passes |-> passes, nominatim |-> Len(passes),
            overpass |-> SumField(passes, "overpass_queries"),
            answered |-> SumField(passes, "answered") ]
     ELSE FetchDirect(self_cache, st, place_name, city, zone_bboxes, passes, be)

FetchNormal(self_cache, self_stats, cache_key, place_name, city, zone_bboxes, be) ==
  VariantOutcome(self_cache, self_stats, cache_key, place_name, city, zone_bboxes, be,
                 VariantLoop(_generate_variants(place_name, city), 1, city, zone_bboxes, be.variant))

\* fetch_place(place_name, city_prefix, zones_info); zones is
\* zones_info.get(place_name, set()) in the order the set is iterated, be the
\* answers of the backend to the requests of this call
fetch_place(self_cache, self_stats, place_name, city_prefix, zones, be) ==
  LET cache_key == CacheKey(city_prefix, place_name)
      city == Get(CITIES, city_prefix)
      zone_bboxes == ZoneBboxes(city, zones)
      civico == DirectCivicMatch(place_name)
  IN IF CacheHit(self_cache, cache_key) THEN FetchCached(self_cache, self_stats)
     ELSE IF civico # 0
       THEN FetchCivic(self_cache, self_stats, cache_key, Strip(Upto(place_name, civico)), city, zone_bboxes, be)
     ELSE FetchNormal(self_cache, self_stats, cache_key, place_name, city, zone_bboxes, be)

\* ------------------------------------------------------------------------
\* The cache file (coordinates_fetcher.py, _load_cache / _save_cache)
\* ------------------------------------------------------------------------
SampleKeys == 5

NoFile == [exists |-> FALSE, content |-> <<>>]

\* json.dump(self.cache, f): keys are strings and values are dicts, lists,
\* strings and numbers, which JSON writes and reads back unchanged
_save_cache(self_cache) == [exists |-> TRUE, content |-> self_cache]

\* lines 89-99: the first keys all carry a city prefix and a 'geometries' field
is_cache_format(file_cache) ==
  \A i \in 1..Len(file_cache) :
    i <= SampleKeys =>
      /\ \E c \in CityPrefixes : StartsWith(file_cache[i].k, <<c, "_">>)
      /\ "geometries" \in DOMAIN file_cache[i].v

\* cache.update(file_cache)
RECURSIVE Update(_, _)
Update(self_cache, file_cache) ==
  IF file_cache = <<>> THEN self_cache
  ELSE Update(Put(self_cache, Head(file_cache).k, Head(file_cache).v), Tail(file_cache))

\* one pass of the loop over cache_files
LoadFile(self_cache, file) ==
  IF file.exists /\ is_cache_format(file.content) THEN Update(self_cache, file.content) ELSE self_cache

\* cache_files = ["coordinates.json", self.cache_file], the same file twice
\* for the default cache_file
_load_cache(file) == LoadFile(LoadFile(<<>>, file), file)

\* ------------------------------------------------------------------------
\* State machine of the fetcher: one CoordinatesFetcher per process run
\* ------------------------------------------------------------------------
VARIABLES
  cache,      \* self.cache
  stats,      \* self.stats
  disk,       \* the cache file coordinates.json
  last,       \* the last operation: its inputs and what it did
  queried,    \* per (city_prefix, place_name): calls of this process that sent external requests
  calls,      \* number of calls made so far
  specification,   \* the specification string handed to the parsers
  places_catalog,  \* PlacesEmbedder.places_catalog
  args,            \* the arguments of a function that is applied on its own
  run              \* process_ordinances: its position and its local variables

vars == <<cache, stats, disk, last, queried, calls, specification, places_catalog, args, run>>

\* the fetcher leaves the embedder's state alone, and conversely; no
\* operation assigns the arguments it is called with
fetcher_vars == <<cache, stats, disk, queried, calls>>
embedder_vars == <<specification, places_catalog, args>>

ViaRoma == <<"Via", SP, "Roma">>
ViaRomaCivico == <<"Via", SP, "Roma", SP, "civico", SP, "5">>
FetchNames == {ViaRoma, ViaRomaCivico}
FetchCities == {"RM"}

ZoneChoices == { <<>>, << <<"esquilino">> >>, << <<"no", "_", "zone">> >> }

\* no cache file, or one whose entry holds no coordinates (the case the
\* lookup of line 759 tells apart from a hit)
InitialFiles ==
  { NoFile,
    [exists |-> TRUE,
     content |-> <<[k |-> CacheKey("RM", ViaRoma),
                    v |-> [type |-> "street", geometries |-> <<>>]]>>] }

ZeroStats == [fetched |-> 0, cached |-> 0, failed |-> 0, filtered |-> 0, zone_filtered |-> 0]

NoCall == [op |-> "init"]

\* process_ordinances is not running
NoRun == [at |-> "idle"]

\* ---- what the backend may answer during one call -------------------------
\* per variant: Nominatim fails; it names a way; it names a node and
\* Overpass fails; it names a node that Overpass places at p
VariantOutcomes ==
  {[kind |-> k, p |-> PFar] : k \in {"fail", "way", "ovfail"}}
  \cup {[kind |-> "node", p |-> q] : q \in {PEsq, PRm, PFar}}

VariantAnswer(o, fk, city) ==
  [ nominatim |->
      IF o.kind = "fail" THEN FailResponse(fk)
      ELSE OkResponse(<<[osm_type |-> IF o.kind = "way" THEN "way" ELSE "node",
                         class |-> "highway", type |-> "residential",
                         display_name |-> city.city_pattern, osm_id |-> 1]>>),
    tags |->
      IF o.kind = "ovfail" THEN FailResponse(fk)
      ELSE IF o.kind = "node" THEN OkResponse(<<NodeElement(o.p)>>)
      ELSE OkResponse(<<WayElement(<<>>)>>),
    byname |-> OkResponse(<<WayElement(<<PEsq, PRm>>)>>) ]

\* per direct query: it fails, or it returns one way with these points
DirectOutcomes == {<<>>, <<PEsq, PRm>>, <<PRm, PFar>>}

DirectAnswer(o, fk) == IF o = <<>> THEN FailResponse(fk) ELSE OkResponse(<<WayElement(o)>>)

\* per civic query: it fails, or it returns one address node
CivicOutcomes == {<<>>, PEsq, PRm, PFar}

CivicAnswer(o, fk) == IF o = <<>> THEN FailResponse(fk) ELSE OkResponse(<<NodeElement(o)>>)

NoBackend == [variant |-> <<>>, direct |-> <<>>, civic |-> <<>>]

\* the answers the backend may give to the requests of fetch_place(place_name)
Backends(place_name, city) ==
  IF DirectCivicMatch(place_name) # 0
  THEN LET n == Len(_generate_variants(Strip(Upto(place_name, DirectCivicMatch(place_name))), city))
       IN { [variant |-> <<>>, direct |-> <<>>,
             civic |-> [i \in 1..n |-> CivicAnswer(o[i], fk)]] :
            o \in [1..n -> CivicOutcomes], fk \in FailKinds }
  ELSE LET n == Len(_generate_variants(place_name, city))
           m == Len(DirectQueries(DirectSearchTerms(place_name, city)))
       IN { [variant |-> [i \in 1..n |-> VariantAnswer(x[1][i], x[3], city)],
             direct |-> [j \in 1..m |-> DirectAnswer(x[2][j], x[3])],
             civic |-> <<>>] :
            x \in [1..n -> VariantOutcomes] \X [1..m -> DirectOutcomes] \X FailKinds }

\* ---- actions --------------------------------------------------------------
Init ==
  /\ disk \in InitialFiles
  /\ cache = _load_cache(disk)
  /\ stats = ZeroStats
  /\ last = NoCall
  /\ queried = [key \in FetchCities \X FetchNames |-> 0]
  /\ calls = 0
  /\ run = NoRun
  /\ specification = <<>>
  /\ places_catalog = <<>>
  /\ args = <<>>

\* ---- one call, tabulated ----------------------------------------------------
\* Past the cache lookup of lines 758-760, fetch_place reads neither the cache
\* nor the statistics: it only assigns one cache key and adds to counters.
\* What a call does when the cache does not answer it is therefore tabulated
\* once, on an empty cache and zeroed statistics, for every answer of the
\* backend, and applied to the current cache and statistics by the action.
CallKinds == FetchNames \X FetchCities \X ZoneChoices

Effects ==
  UNION {{[call |-> ck, effect |-> fetch_place(<<>>, ZeroStats, ck[1], ck[2], ck[3], be)] :
            be \in Backends(ck[1], Get(CITIES, ck[2]))} : ck \in CallKinds}

AddStats(a, b) ==
  [f \in DOMAIN a |-> a[f] + b[f]]

Rebase(effect, c, s) ==
  [effect EXCEPT !.cache = Update(c, effect.cache), !.stats = AddStats(s, effect.stats)]

\* what the record of the last call keeps of each pass of the variant loop
Observed(passes) ==
  [i \in 1..Len(passes) |->
     [ variant |-> passes[i].variant,
       yielded |-> passes[i].all_geometries # <<>>,
       kept |-> passes[i].final_geometries # <<>> ]]

\* self.fetch_place(place_name, city_prefix, zones_info)
FetchPlace(place_name, city_prefix, zones) ==
  /\ calls < MaxCalls
  /\ \E r \in (IF CacheHit(cache, CacheKey(city_prefix, place_name))
                THEN {fetch_place(cache, stats, place_name, city_prefix, zones, NoBackend)}
                ELSE {Rebase(e.effect, cache, stats) :
                        e \in {x \in Effects : x.call = <<place_name, city_prefix, zones>>}}) :
       /\ cache' = r.cache
       /\ stats' = r.stats
       /\ last' = [ op |-> "fetch_place", place_name |-> place_name,
                    city_prefix |-> city_prefix, zones |-> zones,
                    ret |-> r.ret, path |-> r.path, passes |-> Observed(r.passes),
                    nominatim |-> r.nominatim, overpass |-> r.overpass,
                    answered |-> r.answered ]
       /\ queried' = [queried EXCEPT ![<<city_prefix, place_name>>] =
                        IF r.nominatim + r.overpass > 0 THEN @ + 1 ELSE @]
  /\ calls' = calls + 1
  /\ UNCHANGED <<disk, embedder_vars, run>>

\* self._save_cache()
SaveCache ==
  /\ disk' = _save_cache(cache)
  /\ last' = [op |-> "_save_cache"]
  /\ UNCHANGED <<cache, stats, queried, calls, embedder_vars, run>>

\* the process ends and a new one starts: CoordinatesFetcher.__init__
Restart ==
  /\ cache' = _load_cache(disk)
  /\ stats' = ZeroStats
  /\ last' = [op |-> "_load_cache"]
  /\ queried' = [key \in DOMAIN queried |-> 0]
  /\ UNCHANGED <<disk, calls, embedder_vars, run>>

Next ==
  \/ \E place_name \in FetchNames, city_prefix \in FetchCities, zones \in ZoneChoices :
       FetchPlace(place_name, city_prefix, zones)
  \/ SaveCache
  \/ Restart

Spec == Init /\ [][Next]_vars

\* ------------------------------------------------------------------------
\* Properties of the fetcher
\* ------------------------------------------------------------------------
\* the step is a call of fetch_place
IsFetch == calls' = calls + 1

\* C1: over the calls of one process, external searches are issued for each
\* key (city_prefix, place_name) during at most one call.  Refuted: a call
\* that fails stores nothing, and a call answered by the direct Overpass
\* fallback stores its result under the bare place_name (see C3), so the next
\* call for the same key searches again.
C1_AtMostOneResolution ==
  \A key \in DOMAIN queried : queried[key] <= 1

\* C2: when the cache holds the key city_prefix_place_name with non-empty
\* geometries, fetch_place returns True, sends no request, leaves the cache
\* unchanged and adds one to 'cached' and to no other counter.
C2_CacheHit ==
  [][ (IsFetch /\ CacheHit(cache, CacheKey(last'.city_prefix, last'.place_name)))
        => /\ last'.ret = "True"
           /\ last'.nominatim = 0 /\ last'.overpass = 0
           /\ cache' = cache
           /\ stats' = [stats EXCEPT !.cached = @ + 1] ]_vars

C2_Witness ==
  /\ last.op = "fetch_place" /\ last.path = "cache" /\ last.ret = "True"
  /\ CacheHit(cache, CacheKey(last.city_prefix, last.place_name))
  /\ stats.cached = 1

\* C3: after fetch_place returned True having asked the backend, the cache
\* holds non-empty geometries under city_prefix_place_name.  Refuted by the
\* direct Overpass fallback, which writes self.cache[place_name].
C3_SuccessIsCached ==
  (last.op = "fetch_place" /\ last.ret = "True" /\ last.path # "cache")
    => CacheHit(cache, CacheKey(last.city_prefix, last.place_name))

\* C4: every entry of the cache that _save_cache wrote is, with the same
\* value, in the cache that _load_cache builds from the file.  Refuted: a
\* bare key written by the direct fallback (see C3) among the first keys makes
\* _load_cache reject the whole file.
C4_SaveLoadRoundTrip ==
  (last.op = "_load_cache" /\ disk.exists)
    => \A i \in 1..Len(disk.content) :
         /\ HasKey(cache, disk.content[i].k)
         /\ Get(cache, disk.content[i].k) = disk.content[i].v

\* C5: when every request of a call fails (timeout, status other than 200,
\* malformed body, no results), fetch_place returns False, adds one to
\* 'failed' and leaves the cache unchanged.
C5_BackendFailure ==
  [][ (IsFetch /\ last'.path # "cache" /\ last'.answered = 0)
        => /\ last'.ret = "False"
           /\ stats'.failed = stats.failed + 1
           /\ stats'.fetched = stats.fetched
           /\ cache' = cache ]_vars

C5_Witness ==
  /\ last.op = "fetch_place" /\ last.path = "direct" /\ last.answered = 0
  /\ last.nominatim > 0 /\ last.overpass > 0
  /\ last.ret = "False" /\ stats.failed = 1

\* the passes of the last call were made over the variants in their order
InVariantOrder ==
  \A i \in 1..Len(last.passes) :
    /\ i <= Len(_generate_variants(last.place_name, Get(CITIES, last.city_prefix)))
    /\ last.passes[i].variant
         = _generate_variants(last.place_name, Get(CITIES, last.city_prefix))[i]

\* C7 as stated: the variants are searched in order and the first variant
\* whose search yields a geometry ends the search, without direct fallback.
\* Refuted: a variant whose geometries are all dropped by the bounding-box
\* filters does not end the search.
C7_StopsAtFirstYield ==
  (last.op = "fetch_place" /\ last.path \in {"variant", "direct"})
    => /\ InVariantOrder
       /\ \A i \in 1..Len(last.passes) :
            last.passes[i].yielded => (i = Len(last.passes) /\ last.path = "variant")

\* C7 amended: the variants are searched in order and the first variant with
\* a geometry left after the city and zone bounding-box filters ends the
\* search, without direct fallback.
C7_StopsAtFirstKept ==
  (last.op = "fetch_place" /\ last.path \in {"variant", "direct"})
    => /\ InVariantOrder
       /\ \A i \in 1..Len(last.passes) :
            last.passes[i].kept => (i = Len(last.passes) /\ last.path = "variant")

C7_Witness ==
  /\ last.op = "fetch_place" /\ last.path = "variant"
  /\ Len(last.passes) = 2
  /\ last.passes[1].yielded /\ ~last.passes[1].kept
  /\ last.passes[2].kept

\* ------------------------------------------------------------------------
\* Regular expressions of the two parsers, on token sequences.  A lazy group
\* (.+?) takes the shortest non-empty prefix after which the rest of the
\* pattern matches; \s+ takes a non-empty run of blanks.
\* ------------------------------------------------------------------------
TRATTO == <<"tratto", SP, "compreso", SP, "tra">>
INCROCIO_CON == <<"incrocio", SP, "con">>
INCROCIO_TRA == <<"incrocio", SP, "tra">>
SINO_ALL_INCROCIO_CON == <<"sino", SP, "all'incrocio", SP, "con">>
ALL_INCROCIO_CON == <<"all'incrocio", SP, "con">>
ANGOLO == <<"angolo">>
INCROCIO == <<"incrocio">>
FRONTE_CIVICO == <<"(fronte", SP, "civico", SP>>

\* t without its leading blanks
AfterBlanks(t) == From(t, LeadingBlanks(t) + 1)

\* length of the lazy group at the start of t, 0 when the pattern fails
LazyGroup(t, Rest(_)) ==
  IF \E i \in 1..Len(t) : Rest(From(t, i + 1))
  THEN CHOOSE i \in 1..Len(t) :
         Rest(From(t, i + 1)) /\ \A j \in 1..(i - 1) : ~Rest(From(t, j + 1))
  ELSE 0

\* r against \s+<lit>: whether it matches and the text after the literal;
\* ci is re.IGNORECASE
Literal(r, lit, ci) ==
  LET s == AfterBlanks(r)
  IN IF LeadingBlanks(r) >= 1 /\ StartsWith(IF ci THEN Lower(s) ELSE s, lit)
     THEN [ok |-> TRUE, rest |-> From(s, Len(lit) + 1)]
     ELSE [ok |-> FALSE, rest |-> <<>>]

\* r against \s*\(fronte civico (\d+)\)$
ParenTail(r) ==
  LET s == AfterBlanks(r)
  IN /\ Len(s) = Len(FRONTE_CIVICO) + 2
     /\ StartsWith(s, FRONTE_CIVICO)
     /\ IsDigitTok(s[Len(s) - 1])
     /\ s[Len(s)] = ")"

\* r against \s+e\s+(.+?)$ with re.IGNORECASE
ETail(r) ==
  LET s == AfterBlanks(r)
  IN LeadingBlanks(r) >= 1 /\ Len(s) >= 3 /\ LowerTok(s[1]) = "e" /\ s[2] = SP

\* u against \s+(.+?)$, u starting with a blank and holding more: the group
\* left by the greedy run of blanks
LastGroup(u) ==
  From(u, IF LeadingBlanks(u) = Len(u) THEN Len(u) ELSE LeadingBlanks(u) + 1)

\* u against \s+(.+?)\s+e\s+(.+?)$ with re.IGNORECASE: the two groups.  The
\* greedy \s+ keeps the longest run of blanks that lets the rest match.
TwoGroups(u) ==
  LET Runs == {b \in 1..LeadingBlanks(u) : LazyGroup(From(u, b + 1), ETail) # 0}
  IN IF Runs = {} THEN [ok |-> FALSE, g2 |-> <<>>, g3 |-> <<>>]
     ELSE LET b == CHOOSE m \in Runs : \A n \in Runs : n <= m
              x == From(u, b + 1)
              i == LazyGroup(x, ETail)
          IN [ok |-> TRUE, g2 |-> Upto(x, i),
              g3 |-> LastGroup(Tail(AfterBlanks(From(x, i + 1))))]

\* s against ^(.+?)\s+<lit>\s+(.+?)$ with re.IGNORECASE: the two groups
InfixMatch(s, lit) ==
  LET Rest(r) == /\ Literal(r, lit, TRUE).ok
                 /\ LeadingBlanks(Literal(r, lit, TRUE).rest) >= 1
                 /\ Len(Literal(r, lit, TRUE).rest) >= 2
      i == LazyGroup(s, Rest)
  IN IF i = 0 THEN [ok |-> FALSE, g1 |-> <<>>, g2 |-> <<>>]
     ELSE [ok |-> TRUE, g1 |-> Upto(s, i),
           g2 |-> LastGroup(Literal(From(s, i + 1), lit, TRUE).rest)]

\* s against ^incrocio tra\s+(.+?)\s+e\s+(.+?)$ with re.IGNORECASE
IncrocioTraMatch(s) ==
  IF StartsWith(Lower(s), INCROCIO_TRA) /\ TwoGroups(From(s, Len(INCROCIO_TRA) + 1)).ok
  THEN [ok |-> TRUE, g1 |-> TwoGroups(From(s, Len(INCROCIO_TRA) + 1)).g2,
        g2 |-> TwoGroups(From(s, Len(INCROCIO_TRA) + 1)).g3]
  ELSE [ok |-> FALSE, g1 |-> <<>>, g2 |-> <<>>]

\* s.split(sep)
RECURSIVE Split(_, _)
Split(s, sep) ==
  IF Contains(s, sep)
  THEN LET i == CHOOSE k \in 0..(Len(s) - Len(sep)) :
                  /\ SubSeq(s, k + 1, k + Len(sep)) = sep
                  /\ \A j \in 0..(k - 1) : SubSeq(s, j + 1, j + Len(sep)) # sep
       IN <<Upto(s, i)>> \o Split(From(s, i + Len(sep) + 1), sep)
  ELSE <<s>>

\* f"{street} civico {civic_num}"
CivicName(street, civic_num) == street \o <<SP, "civico", SP, civic_num>>

\* ------------------------------------------------------------------------
\* PlacesEmbedder.parse_specification (embed_coordinates.py)
\* ------------------------------------------------------------------------
\* [ep.strip() for ep in parts]
StripEach(parts) == [i \in 1..Len(parts) |-> Strip(parts[i])]

\* lines 329-336: the civic pattern ^(.+?)\s*\(fronte civico (\d+)\)$
ParseCivico(s) ==
  LET i == LazyGroup(s, ParenTail)
      primary == Strip(Upto(s, i))
  IN [ type |-> "civico", primary |-> primary, civic_number |-> s[Len(s) - 1],
       places |-> <<primary, CivicName(primary, s[Len(s) - 1])>> ]

\* r against \s+tratto compreso tra (.+?)$
TrattoTail(r) ==
  Literal(r, TRATTO \o <<SP>>, FALSE).ok /\ Literal(r, TRATTO \o <<SP>>, FALSE).rest # <<>>

\* lines 339-348: the tract pattern; the endpoint clause is split at every " e "
ParseTratto(s) ==
  LET i == LazyGroup(s, TrattoTail)
      endpoints == StripEach(Split(Literal(From(s, i + 1), TRATTO \o <<SP>>, FALSE).rest,
                                   <<SP, "e", SP>>))
  IN [ type |-> "tratto", primary |-> Strip(Upto(s, i)), endpoints |-> endpoints,
       places |-> <<Strip(Upto(s, i))>> \o endpoints ]

\* r against \s+incrocio con (.+?)$
IncrocioTail(r) ==
  /\ Literal(r, INCROCIO_CON \o <<SP>>, FALSE).ok
  /\ Literal(r, INCROCIO_CON \o <<SP>>, FALSE).rest # <<>>

\* lines 351-360: the intersection pattern
ParseIncrocio(s) ==
  LET i == LazyGroup(s, IncrocioTail)
      intersecting == Strip(Literal(From(s, i + 1), INCROCIO_CON \o <<SP>>, FALSE).rest)
  IN [ type |-> "incrocio", primary |-> Strip(Upto(s, i)), intersecting |-> intersecting,
       places |-> <<Strip(Upto(s, i)), intersecting>> ]

\* faulty variant: the tract pattern tried before the civic pattern
parse_specification_TractFirst(raw) ==
  LET s == Strip(raw)
  IN IF LazyGroup(s, TrattoTail) # 0 THEN ParseTratto(s)
     ELSE IF LazyGroup(s, ParenTail) # 0 THEN ParseCivico(s)
     ELSE IF LazyGroup(s, IncrocioTail) # 0 THEN ParseIncrocio(s)
     ELSE [type |-> "simple", primary |-> s, places |-> <<s>>]

parse_specification(raw) ==
  LET s == Strip(raw)
  IN IF LazyGroup(s, ParenTail) # 0 THEN ParseCivico(s)
     ELSE IF LazyGroup(s, TrattoTail) # 0 THEN ParseTratto(s)
     ELSE IF LazyGroup(s, IncrocioTail) # 0 THEN ParseIncrocio(s)
     ELSE [type |-> "simple", primary |-> s, places |-> <<s>>]

\* ------------------------------------------------------------------------
\* CoordinatesFetcher.extract_elements (coordinates_fetcher.py)
\* ------------------------------------------------------------------------
\* lines 141-158 and 161-177: the elements of one tract endpoint
TractEndpoint(endpoint) ==
  IF LazyGroup(endpoint, ParenTail) # 0
  THEN LET street == Strip(Upto(endpoint, LazyGroup(endpoint, ParenTail)))
       IN {street, CivicName(street, endpoint[Len(endpoint) - 1])}
  ELSE IF DirectCivicMatch(endpoint) # 0
  THEN {Strip(Upto(endpoint, DirectCivicMatch(endpoint))), endpoint}
  ELSE {endpoint}

\* faulty variant: an intersection side added as it stands
IntersectionSide_Whole(place) == {place}

\* lines 194-214: the elements of one side of an intersection
IntersectionSide(place) ==
  IF LazyGroup(place, ParenTail) # 0
  THEN LET street == Strip(Upto(place, LazyGroup(place, ParenTail)))
       IN {street, CivicName(street, place[Len(place) - 1])}
  ELSE {place}

\* ^(.+?)\s+tratto compreso tra\s+(.+?)\s+e\s+(.+?)$ with re.IGNORECASE
TractMatch(s) ==
  LET Rest(r) == Literal(r, TRATTO, TRUE).ok /\ TwoGroups(Literal(r, TRATTO, TRUE).rest).ok
      i == LazyGroup(s, Rest)
      g == TwoGroups(Literal(From(s, i + 1), TRATTO, TRUE).rest)
  IN IF i = 0 THEN [ok |-> FALSE, g1 |-> <<>>, g2 |-> <<>>, g3 |-> <<>>]
     ELSE [ok |-> TRUE, g1 |-> Upto(s, i), g2 |-> g.g2, g3 |-> g.g3]

\* lines 182-192: the first of intersection_patterns that matches
IntersectionMatch(s) ==
  IF InfixMatch(s, INCROCIO_CON).ok THEN InfixMatch(s, INCROCIO_CON)
  ELSE IF IncrocioTraMatch(s).ok THEN IncrocioTraMatch(s)
  ELSE IF InfixMatch(s, SINO_ALL_INCROCIO_CON).ok THEN InfixMatch(s, SINO_ALL_INCROCIO_CON)
  ELSE IF InfixMatch(s, ALL_INCROCIO_CON).ok THEN InfixMatch(s, ALL_INCROCIO_CON)
  ELSE IF InfixMatch(s, ANGOLO).ok THEN InfixMatch(s, ANGOLO)
  ELSE InfixMatch(s, INCROCIO)

extract_elements(raw) ==
  IF TractMatch(raw).ok
  THEN {Strip(TractMatch(raw).g1)}
       \cup TractEndpoint(Strip(TractMatch(raw).g2))
       \cup TractEndpoint(Strip(TractMatch(raw).g3))
  ELSE IF IntersectionMatch(raw).ok
  THEN IntersectionSide(Strip(IntersectionMatch(raw).g1))
       \cup IntersectionSide(Strip(IntersectionMatch(raw).g2))
  ELSE IF LazyGroup(raw, ParenTail) # 0
  THEN LET street == Strip(Upto(raw, LazyGroup(raw, ParenTail)))
       IN {street, CivicName(street, raw[Len(raw) - 1])}
  ELSE IF DirectCivicMatch(raw) # 0
  THEN {Strip(Upto(raw, DirectCivicMatch(raw))), Strip(raw)}
  ELSE {Strip(raw)}

\* ------------------------------------------------------------------------
\* The parsers applied to specification strings
\* ------------------------------------------------------------------------
MaxWords == 4
MaxClause == 5

\* the words specifications are written with: names, the conjunction, and
\* the three keyword phrases
Spell(w) ==
  CASE w = "T" -> TRATTO
    [] w = "I" -> INCROCIO_CON
    [] w = "F" -> FRONTE_CIVICO \o <<"5", ")">>
    [] OTHER -> <<w>>

\* the words written one after the other with single blanks
Sentence(ws) == JoinWords([i \in 1..Len(ws) |-> Spell(ws[i])])

FreeWords == {"A", "B", "e", "T", "I", "F"}
ClauseWords == {"A", "B", "e", "F"}

\* any words in any order, as written or with blanks around
FreeInputs ==
  LET S == {Sentence(ws) : ws \in UNION {[1..n -> FreeWords] : n \in 1..MaxWords}}
  IN S \cup {<<SP>> \o x \o <<SP, SP>> : x \in S}

\* "A tratto compreso tra <clause>"
TractInputs ==
  {Sentence(<<"A", "T">> \o ws) : ws \in UNION {[1..n -> ClauseWords] : n \in 1..MaxClause}}

ParseInputs == FreeInputs \cup TractInputs

InitParse ==
  /\ specification \in ParseInputs
  /\ places_catalog = <<>>
  /\ args = <<>>
  /\ cache = <<>>
  /\ stats = ZeroStats
  /\ disk = NoFile
  /\ last = NoCall
  /\ queried = [key \in FetchCities \X FetchNames |-> 0]
  /\ calls = 0
  /\ run = NoRun

\* the embedder parses the specification
ParseSpecification ==
  /\ last' = [op |-> "parse_specification", result |-> parse_specification(specification)]
  /\ UNCHANGED <<fetcher_vars, embedder_vars, run>>

\* the fetcher extracts the elements of the specification
ExtractElements ==
  /\ last' = [op |-> "extract_elements", result |-> extract_elements(specification)]
  /\ UNCHANGED <<fetcher_vars, embedder_vars, run>>

NextParse == ParseSpecification \/ ExtractElements

SpecParse == InitParse /\ [][NextParse]_vars

\* ------------------------------------------------------------------------
\* Properties of the parsers
\* ------------------------------------------------------------------------
\* the stripped specification, as the patterns of parse_specification see it
Trimmed == Strip(specification)

\* x occurs in t at tokens k+1.., after at least one token and one blank, and
\* is followed by a blank and at least one more token
Phrase(t, x) ==
  \E k \in 2..Len(t) :
    /\ Len(t) >= k + Len(x) + 2
    /\ t[k] = SP
    /\ SubSeq(t, k + 1, k + Len(x)) = x
    /\ t[k + Len(x) + 1] = SP

\* t ends with "(fronte civico <digits>)" after at least one token
CivicEnding(t) ==
  /\ Len(t) >= Len(FRONTE_CIVICO) + 3
  /\ SubSeq(t, Len(t) - Len(FRONTE_CIVICO) - 1, Len(t) - 2) = FRONTE_CIVICO
  /\ IsDigitTok(t[Len(t) - 1]) /\ t[Len(t)] = ")"

\* C8: parse_specification tests civic, then tract, then intersection; the
\* first pattern that matches decides the kind, and a string matching none is
\* simple with the trimmed input as its only target.
C8_PatternOrder ==
  last.op = "parse_specification" =>
    /\ last.result.type =
         (IF CivicEnding(Trimmed) THEN "civico"
          ELSE IF Phrase(Trimmed, TRATTO) THEN "tratto"
          ELSE IF Phrase(Trimmed, INCROCIO_CON) THEN "incrocio"
          ELSE "simple")
    /\ last.result.type = "simple" => last.result.places = <<Trimmed>>

\* a string matching two patterns got the kind of the earlier one
C8_Witness ==
  /\ last.op = "parse_specification"
  /\ \/ CivicEnding(Trimmed) /\ Phrase(Trimmed, TRATTO) /\ last.result.type = "civico"
     \/ /\ ~CivicEnding(Trimmed) /\ Phrase(Trimmed, TRATTO) /\ Phrase(Trimmed, INCROCIO_CON)
        /\ last.result.type = "tratto"

\* the elements of a sequence
Range(f) == {f[i] : i \in DOMAIN f}

\* plain names: no keyword, no conjunction, no civic number
PlainNames == {<<"A">>, <<"B">>, <<"A", SP, "B">>, <<"B", SP, "A">>}

\* names that may hold the conjunction, as the second endpoint of a clause
\* split at its first " e "
LaterNames == PlainNames \cup {x \o <<SP, "e", SP>> \o y : x \in PlainNames, y \in PlainNames}

\* specification is "a tratto compreso tra b e c"
IsTract(a, b, c) ==
  specification = a \o <<SP>> \o TRATTO \o <<SP>> \o b \o <<SP, "e", SP>> \o c

\* C9: for "A tratto compreso tra B e C" both parsers yield the targets
\* {A, B, C}, the clause being split at its first " e " only, so that there
\* are two endpoints.  Refuted for parse_specification, which splits the
\* clause at every " e ".
C9_TractTargets ==
  \A a \in PlainNames, b \in PlainNames, c \in LaterNames :
    IsTract(a, b, c) =>
      /\ last.op = "parse_specification" =>
           /\ last.result.type = "tratto"
           /\ Range(last.result.places) = {a, b, c}
           /\ Len(last.result.endpoints) = 2
      /\ last.op = "extract_elements" => last.result = {a, b, c}

\* "x (fronte civico 5)"
Fronte(x) == x \o <<SP>> \o FRONTE_CIVICO \o <<"5", ")">>

\* specification has x (fronte civico 5) as an endpoint of a tract or as a
\* side of an intersection
HasCivicEndpoint(x) ==
  \E a \in PlainNames, y \in PlainNames \cup {Fronte(z) : z \in PlainNames} :
    \/ IsTract(a, Fronte(x), y)
    \/ IsTract(a, y, Fronte(x))
    \/ specification = Fronte(x) \o <<SP>> \o INCROCIO_CON \o <<SP>> \o y
    \/ specification = y \o <<SP>> \o INCROCIO_CON \o <<SP>> \o Fronte(x)

\* C10: an endpoint of a tract or a side of an intersection of the form
\* "X (fronte civico N)" puts X and "X civico N" into the elements, and
\* neither the endpoint as written nor the whole specification.
C10_NestedCivic ==
  last.op = "extract_elements" =>
    \A x \in PlainNames :
      HasCivicEndpoint(x) =>
        /\ x \in last.result
        /\ CivicName(x, "5") \in last.result
        /\ Fronte(x) \notin last.result
        /\ specification \notin last.result

C10_Witness ==
  /\ last.op = "extract_elements"
  /\ \E a \in PlainNames, b \in PlainNames :
       IsTract(a, b, Fronte(<<"A">>)) /\ CivicName(<<"A">>, "5") \in last.result

\* ------------------------------------------------------------------------
\* Composite geometry builder (embed_coordinates.py).  An operation that can
\* raise yields [raised |-> TRUE] in place of its value.
\* ------------------------------------------------------------------------
\* CITY_PREFIXES, for the cities of CITIES above
CITY_PREFIXES == <<[k |-> "Roma", v |-> "RM"], [k |-> "Milano", v |-> "MI"]>>

NoCity == [city_name |-> "Unknown"]      \* city_config is None
NoData == [type |-> "none"]              \* get_place_data returns None

PNear == <<41900400, 12500000>>    \* 44 m north of PEsq
PMid == <<41901000, 12500000>>     \* 111 m north of PEsq
PZero == <<0, 0>>                  \* latitude 0, longitude 0
POut == <<95000000, 12500000>>     \* latitude 95: not a latitude

\* calculate_distance: the haversine distance of lines 9-21 in centimetres,
\* tabulated for the points of the model
calculate_distance(coord1, coord2) ==
  LET pair == {coord1, coord2}
  IN CASE coord1 = coord2 -> 0
       [] pair = {PEsq, PNear} -> 4448
       [] pair = {PEsq, PMid} -> 11119
       [] pair = {PNear, PMid} -> 6672
       [] pair = {PEsq, PRm} -> 693172
       [] pair = {PNear, PRm} -> 696744
       [] pair = {PMid, PRm} -> 702120
       [] pair = {PEsq, PZero} -> 482499074
       [] pair = {PNear, PZero} -> 482503295
       [] pair = {PMid, PZero} -> 482509627
       [] pair = {PRm, PZero} -> 481841090
       [] pair = {PEsq, POut} -> 590445060
       [] pair = {PNear, POut} -> 590440613
       [] pair = {PMid, POut} -> 590433941
       [] pair = {PRm, POut} -> 591001015
       [] pair = {PZero, POut} -> 1055030685

is_coordinate_in_bbox(coord, bbox) ==
  bbox[1] <= coord[1] /\ coord[1] <= bbox[3] /\ bbox[2] <= coord[2] /\ coord[2] <= bbox[4]

\* dict.get(field, [])
GetList(d, field) == IF field \in DOMAIN d THEN d[field] ELSE <<>>

\* [c for c in coords if zone_bbox is None or is_coordinate_in_bbox(c, zone_bbox)]
RECURSIVE InZone(_, _)
InZone(coords, zone_bbox) ==
  IF coords = <<>> THEN <<>>
  ELSE (IF zone_bbox = NoBbox \/ is_coordinate_in_bbox(Head(coords), zone_bbox)
        THEN <<Head(coords)>> ELSE <<>>)
       \o InZone(Tail(coords), zone_bbox)

\* the special points of type Point
RECURSIVE PointsOnly(_)
PointsOnly(specials) ==
  IF specials = <<>> THEN <<>>
  ELSE (IF Head(specials).type = "Point" THEN <<Head(specials)>> ELSE <<>>)
       \o PointsOnly(Tail(specials))

\* extract_all_coordinates, lines 76-84: the loop over the geometries.  The
\* coordinates of a Point are two numbers, and len(coord) of a number raises
\* TypeError; coords[0] of a Polygon without rings raises IndexError.
RECURSIVE GeometryPoints(_, _)
GeometryPoints(geometries, zone_bbox) ==
  IF geometries = <<>> THEN [raised |-> FALSE, points |-> <<>>]
  ELSE LET geom == Head(geometries)
           r == GeometryPoints(Tail(geometries), zone_bbox)
       IN IF geom.type = "Polygon" /\ geom.coordinates = <<>> THEN [raised |-> TRUE]
          ELSE IF geom.type = "Point" /\ geom.coordinates # <<>> THEN [raised |-> TRUE]
          ELSE IF r.raised THEN r
          ELSE [raised |-> FALSE,
                points |-> InZone(IF geom.type = "Polygon" THEN geom.coordinates[1]
                                  ELSE geom.coordinates, zone_bbox) \o r.points]

extract_all_coordinates(place_data, zone_bbox) ==
  LET g == GeometryPoints(GetList(place_data, "geometries"), zone_bbox)
      sp == PointsOnly(GetList(place_data, "special_coordinates"))
  IN IF g.raised THEN g
     ELSE [raised |-> FALSE,
           points |-> g.points \o InZone([i \in 1..Len(sp) |-> sp[i].coordinates], zone_bbox)]

\* geom.copy() with 'bbox_filtered': True and new coordinates
Filtered(geom, coords) ==
  [f \in DOMAIN geom \cup {"bbox_filtered"} |->
     IF f = "bbox_filtered" THEN TRUE ELSE IF f = "coordinates" THEN coords ELSE geom[f]]

RECURSIVE filter_geometries_by_bbox(_, _)
filter_geometries_by_bbox(geometries, zone_bbox) ==
  IF geometries = <<>> THEN <<>>
  ELSE LET geom == Head(geometries)
           rest == filter_geometries_by_bbox(Tail(geometries), zone_bbox)
       IN IF geom.coordinates = <<>> THEN rest
          ELSE IF geom.type = "LineString"
            THEN (IF InZone(geom.coordinates, zone_bbox) # <<>>
                  THEN <<Filtered(geom, InZone(geom.coordinates, zone_bbox))>> ELSE <<>>) \o rest
          ELSE IF geom.type = "Polygon"
            THEN (IF Len(InZone(geom.coordinates[1], zone_bbox)) >= 3
                  THEN <<Filtered(geom, <<InZone(geom.coordinates[1], zone_bbox)>>)>>
                  ELSE <<>>) \o rest
          ELSE <<geom>> \o rest

RECURSIVE filter_special_coordinates_by_bbox(_, _)
filter_special_coordinates_by_bbox(special_coords, zone_bbox) ==
  IF special_coords = <<>> THEN <<>>
  ELSE LET special == Head(special_coords)
           rest == filter_special_coordinates_by_bbox(Tail(special_coords), zone_bbox)
       IN IF special.type = "Point"
          THEN (IF Len(special.coordinates) >= 2
                   /\ is_coordinate_in_bbox(special.coordinates, zone_bbox)
                THEN <<Filtered(special, special.coordinates)>> ELSE <<>>) \o rest
          ELSE <<special>> \o rest

\* the pairs <<i, j>> of the nested loops "for p1 in ps: for p2 in qs" whose
\* distance is the least, and among them the one the loops meet first
NearestPair(ps, qs) ==
  LET Pairs == (1..Len(ps)) \X (1..Len(qs))
      D(x) == calculate_distance(ps[x[1]], qs[x[2]])
      Before(x, y) == x[1] < y[1] \/ (x[1] = y[1] /\ x[2] <= y[2])
  IN CHOOSE x \in Pairs :
       \A y \in Pairs : D(x) < D(y) \/ (D(x) = D(y) /\ Before(x, y))

Threshold == 10000      \* threshold: float = 100.0 metres, in centimetres
Margin == 500           \* margin: float = 0.0005 degrees, in micro-degrees

\* find_intersection_point: [raised], or [raised, found, point]
find_intersection_point(place1_data, place2_data, zone_bbox) ==
  LET e1 == extract_all_coordinates(place1_data, zone_bbox)
      e2 == extract_all_coordinates(place2_data, zone_bbox)
      none == [raised |-> FALSE, found |-> FALSE, point |-> <<>>]
  IN IF e1.raised \/ e2.raised THEN [raised |-> TRUE]
     ELSE IF e1.points = <<>> \/ e2.points = <<>> THEN none
     ELSE LET x == NearestPair(e1.points, e2.points)
              p1 == e1.points[x[1]]
              p2 == e2.points[x[2]]
              mid == <<(p1[1] + p2[1]) \div 2, (p1[2] + p2[2]) \div 2>>
          IN IF /\ calculate_distance(p1, p2) < Threshold
                /\ (zone_bbox = NoBbox \/ is_coordinate_in_bbox(mid, zone_bbox))
             THEN [raised |-> FALSE, found |-> TRUE, point |-> mid]
             ELSE none

\* the street geometries when no tract is cut: lines 208-211, 229-232, 268-271
StreetFallback(street_data, zone_bbox) ==
  IF zone_bbox # NoBbox
  THEN filter_geometries_by_bbox(GetList(street_data, "geometries"), zone_bbox)
  ELSE GetList(street_data, "geometries")

\* [c for c in coords if min_lat <= c[0] <= max_lat and min_lon <= c[1] <= max_lon]
RECURSIVE InTract(_, _)
InTract(coords, box) ==
  IF coords = <<>> THEN <<>>
  ELSE (IF is_coordinate_in_bbox(Head(coords), box) THEN <<Head(coords)>> ELSE <<>>)
       \o InTract(Tail(coords), box)

\* lines 252-267: the LineStrings of the street cut to the tract box
RECURSIVE TractGeometries(_, _)
TractGeometries(geometries, box) ==
  IF geometries = <<>> THEN <<>>
  ELSE (IF Head(geometries).type = "LineString"
           /\ InTract(Head(geometries).coordinates, box) # <<>>
        THEN <<[type |-> "LineString",
                coordinates |-> InTract(Head(geometries).coordinates, box),
                is_tract_segment |-> TRUE, bbox_filtered |-> TRUE]>>
        ELSE <<>>)
       \o TractGeometries(Tail(geometries), box)

\* compute_tract_segment: [raised], or [raised, geometries]
compute_tract_segment(street_data, endpoint1_data, endpoint2_data, zone_bbox) ==
  LET s == extract_all_coordinates(street_data, zone_bbox)
      e1 == extract_all_coordinates(endpoint1_data, zone_bbox)
      e2 == extract_all_coordinates(endpoint2_data, zone_bbox)
  IN IF s.raised \/ e1.raised \/ e2.raised THEN [raised |-> TRUE]
     ELSE IF s.points = <<>> \/ e1.points = <<>> \/ e2.points = <<>>
       THEN [raised |-> FALSE, geometries |-> StreetFallback(street_data, zone_bbox)]
     ELSE LET n1 == s.points[NearestPair(s.points, e1.points)[1]]
              n2 == s.points[NearestPair(s.points, e2.points)[1]]
              tract == << Min({n1[1], n2[1]}) - Margin, Min({n1[2], n2[2]}) - Margin,
                          Max({n1[1], n2[1]}) + Margin, Max({n1[2], n2[2]}) + Margin >>
              box == IF zone_bbox = NoBbox THEN tract
                     ELSE << Max({tract[1], zone_bbox[1]}), Max({tract[2], zone_bbox[2]}),
                             Min({tract[3], zone_bbox[3]}), Min({tract[4], zone_bbox[4]}) >>
              cut == TractGeometries(GetList(street_data, "geometries"), box)
          IN [raised |-> FALSE,
              geometries |-> IF cut # <<>> THEN cut ELSE StreetFallback(street_data, zone_bbox)]

\* get_place_data: the entry under the bare name, under the prefix of the
\* city, or under the first prefix of CITY_PREFIXES that has one
get_place_data(catalog, place_name, city_config) ==
  LET Prefixed(e) == HasKey(catalog, CacheKey(e.v, place_name))
  IN IF HasKey(catalog, place_name) THEN Get(catalog, place_name)
     ELSE IF /\ city_config # NoCity
             /\ HasKey(CITY_PREFIXES, city_config.city_name)
             /\ HasKey(catalog, CacheKey(Get(CITY_PREFIXES, city_config.city_name), place_name))
       THEN Get(catalog, CacheKey(Get(CITY_PREFIXES, city_config.city_name), place_name))
     ELSE IF FirstIndex(CITY_PREFIXES, Prefixed) # 0
       THEN Get(catalog, CacheKey(CITY_PREFIXES[FirstIndex(CITY_PREFIXES, Prefixed)].v, place_name))
     ELSE NoData

\* lines 440-447: place_data, the entries found for parsed['places'], in order
RECURSIVE PlaceData(_, _, _)
PlaceData(catalog, places, city_config) ==
  IF places = <<>> THEN <<>>
  ELSE LET before == PlaceData(catalog, Upto(places, Len(places) - 1), city_config)
           name == places[Len(places)]
           data == get_place_data(catalog, name, city_config)
       IN IF data # NoData THEN Put(before, name, data) ELSE before

\* place_data.get(name)
Lookup(place_data, name) == IF HasKey(place_data, name) THEN Get(place_data, name) ELSE NoData

\* "for data in place_data.values()": every place found, filtered by the zone
RECURSIVE AvailablePlaces(_, _)
AvailablePlaces(place_data, zone_bbox) ==
  IF place_data = <<>> THEN <<>>
  ELSE (IF zone_bbox # NoBbox
        THEN filter_geometries_by_bbox(GetList(Head(place_data).v, "geometries"), zone_bbox)
        ELSE GetList(Head(place_data).v, "geometries"))
       \o AvailablePlaces(Tail(place_data), zone_bbox)

\* lines 469-477: the Point geometries in the format of special coordinates
RECURSIVE PointGeometries(_)
PointGeometries(geometries) ==
  IF geometries = <<>> THEN <<>>
  ELSE (IF Head(geometries).type = "Point"
        THEN <<[type |-> "Point", coordinates |-> Head(geometries).coordinates]>> ELSE <<>>)
       \o PointGeometries(Tail(geometries))

\* embed_coordinates.get_zone_bbox: the lookup stages alone
embed_get_zone_bbox(city_config, zone_name) == ZoneLookup(city_config, zone_name)

\* lines 413-418: zone_bbox of process_specification
SpecZoneBbox(zone_name, city_config) ==
  IF city_config = NoCity THEN NoBbox
  ELSE IF StartsWith(zone_name, <<"no", "_">>) THEN ZeroBbox
  ELSE embed_get_zone_bbox(city_config, zone_name)

\* lines 422-436: the result before any place is looked at.  A key the code
\* leaves out of 'metadata' is "none" (display_mode) or FALSE here.
EmptyResult(raw, parsed, zone_name, ord_id, city_config, zone_bbox, place_data) ==
  [ raised |-> FALSE,
    specification |-> raw,
    type |-> parsed.type,
    geometries |-> <<>>,
    special_coordinates |-> <<>>,
    zone |-> zone_name,
    ordinance |-> ord_id,
    places_found |-> SelectSeq(parsed.places, LAMBDA n : HasKey(place_data, n)),
    places_missing |-> SelectSeq(parsed.places, LAMBDA n : ~HasKey(place_data, n)),
    zone_bbox |-> zone_bbox,
    bbox_filtered |-> zone_bbox # NoBbox,
    city |-> city_config.city_name,
    display_mode |-> "none",
    intersection_calculated |-> FALSE,
    tract_calculated |-> FALSE ]

\* lines 449-459
ProcessSimple(res, parsed, place_data, zone_bbox) ==
  LET primary_data == Lookup(place_data, parsed.primary)
  IN IF primary_data = NoData THEN res
     ELSE IF zone_bbox # NoBbox
       THEN [res EXCEPT
               !.geometries = filter_geometries_by_bbox(GetList(primary_data, "geometries"),
                                                        zone_bbox),
               !.special_coordinates =
                  filter_special_coordinates_by_bbox(
                    GetList(primary_data, "special_coordinates"), zone_bbox)]
     ELSE [res EXCEPT !.geometries = GetList(primary_data, "geometries"),
                      !.special_coordinates = GetList(primary_data, "special_coordinates")]

\* lines 461-490
ProcessCivico(res, parsed, place_data, zone_bbox) ==
  LET civic_data == Lookup(place_data, CivicName(parsed.primary, parsed.civic_number))
      civic_points == PointsOnly(GetList(civic_data, "special_coordinates"))
                      \o PointGeometries(GetList(civic_data, "geometries"))
  IN IF civic_data = NoData THEN res
     ELSE [res EXCEPT
             !.special_coordinates =
                IF zone_bbox # NoBbox /\ civic_points # <<>>
                THEN filter_special_coordinates_by_bbox(civic_points, zone_bbox)
                ELSE civic_points,
             !.display_mode = "civic_only"]

\* lines 492-522
ProcessIncrocio(res, parsed, place_data, zone_bbox) ==
  LET primary_data == Lookup(place_data, parsed.primary)
      intersecting_data == Lookup(place_data, parsed.intersecting)
      x == find_intersection_point(primary_data, intersecting_data, zone_bbox)
  IN IF primary_data = NoData \/ intersecting_data = NoData
     THEN [res EXCEPT !.geometries = AvailablePlaces(place_data, zone_bbox)]
     ELSE IF x.raised THEN [raised |-> TRUE]
     ELSE IF x.found
       THEN [res EXCEPT
               !.special_coordinates = <<[type |-> "Point", coordinates |-> x.point,
                                          calculated_intersection |-> TRUE,
                                          bbox_filtered |-> zone_bbox # NoBbox]>>,
               !.display_mode = "intersection_only",
               !.intersection_calculated = TRUE]
     ELSE [res EXCEPT !.geometries = StreetFallback(primary_data, zone_bbox)
                                     \o StreetFallback(intersecting_data, zone_bbox)]

\* lines 524-541
ProcessTratto(res, parsed, place_data, zone_bbox) ==
  LET primary_data == Lookup(place_data, parsed.primary)
      endpoint1_data == IF Len(parsed.endpoints) > 0
                        THEN Lookup(place_data, parsed.endpoints[1]) ELSE NoData
      endpoint2_data == IF Len(parsed.endpoints) > 1
                        THEN Lookup(place_data, parsed.endpoints[2]) ELSE NoData
      t == compute_tract_segment(primary_data, endpoint1_data, endpoint2_data, zone_bbox)
  IN IF primary_data = NoData \/ endpoint1_data = NoData \/ endpoint2_data = NoData
     THEN [res EXCEPT !.geometries = AvailablePlaces(place_data, zone_bbox)]
     ELSE IF t.raised THEN [raised |-> TRUE]
     ELSE [res EXCEPT !.geometries = t.geometries,
                      !.display_mode = "tract_only",
                      !.tract_calculated = TRUE]

\* PlacesEmbedder.process_specification: [raised |-> TRUE] when an exception
\* leaves the method, the result otherwise
process_specification(catalog, raw, zone_name, ord_id, city_config) ==
  LET parsed == parse_specification(raw)
      zone_bbox == SpecZoneBbox(zone_name, city_config)
      place_data == PlaceData(catalog, parsed.places, city_config)
      res == EmptyResult(raw, parsed, zone_name, ord_id, city_config, zone_bbox, place_data)
  IN CASE parsed.type = "simple" -> ProcessSimple(res, parsed, place_data, zone_bbox)
       [] parsed.type = "civico" -> ProcessCivico(res, parsed, place_data, zone_bbox)
       [] parsed.type = "incrocio" -> ProcessIncrocio(res, parsed, place_data, zone_bbox)
       [] parsed.type = "tratto" -> ProcessTratto(res, parsed, place_data, zone_bbox)

\* ------------------------------------------------------------------------
\* The embedder applied to specifications over a catalog
\* ------------------------------------------------------------------------
NameA == <<"A">>
NameB == <<"B">>
CatalogNames == <<NameA, NameB, CivicName(NameA, "5")>>

\* entries as fetch_place writes them (type and geometries), and entries of
\* the persisted format with special coordinates
WayEntry == [type |-> "street", geometries |-> <<LineString(<<PEsq, PNear, PMid>>)>>]
CrossEntry ==
  [type |-> "street", geometries |-> <<LineString(<<PNear, PRm>>)>>,
   special_coordinates |-> <<Point(PMid)>>]
NodeEntry == [type |-> "street", geometries |-> <<Point(PEsq)>>]      \* line 437
AreaEntry ==
  [type |-> "square", geometries |-> <<Polygon(<<PEsq, PNear, PMid, PEsq>>)>>,
   special_coordinates |-> <<>>]
CatalogEntries == {WayEntry, CrossEntry, NodeEntry, AreaEntry}

\* the catalogs: each name absent or present, all keys written with the
\* prefix of Rome or all bare
RECURSIVE CatalogOf(_, _, _)
CatalogOf(names, pick, prefixed) ==
  IF names = <<>> THEN <<>>
  ELSE (IF pick[1] = NoData THEN <<>>
        ELSE <<[k |-> IF prefixed THEN CacheKey("RM", Head(names)) ELSE Head(names),
                v |-> pick[1]]>>)
       \o CatalogOf(Tail(names), Tail(pick), prefixed)

Catalogs ==
  {CatalogOf(CatalogNames, pick, prefixed) :
     pick \in [1..Len(CatalogNames) -> CatalogEntries \cup {NoData}],
     prefixed \in BOOLEAN}

EmbedSpecs ==
  {Sentence(ws) : ws \in { <<"A">>, <<"B">>, <<"A", "F">>, <<"A", "I", "B">>, <<"B", "I", "A">>,
                           <<"A", "T", "B">>, <<"A", "T", "B", "e", "A">>,
                           <<"B", "T", "A", "e", "A">>, <<"A", "T", "B", "e", "C">> }}

EmbedZones == { <<"esquilino">>, <<"zona", "_", "esquilino">>, <<"no", "_", "zone">>,
                <<"altrove">> }
EmbedCities == {Get(CITIES, "RM"), NoCity}
OrdId == <<"RM", "_", "1">>

InitEmbed ==
  /\ specification \in EmbedSpecs
  /\ places_catalog \in Catalogs
  /\ args = <<>>
  /\ cache = <<>>
  /\ stats = ZeroStats
  /\ disk = NoFile
  /\ last = NoCall
  /\ queried = [key \in FetchCities \X FetchNames |-> 0]
  /\ calls = 0
  /\ run = NoRun

\* process_all_ordinances, line 605: one specification of one zone is processed
ProcessSpecification ==
  \E zone_name \in EmbedZones, city_config \in EmbedCities :
    /\ last' = [op |-> "process_specification", zone_name |-> zone_name,
                city_config |-> city_config,
                result |-> process_specification(places_catalog, specification, zone_name,
                                                 OrdId, city_config)]
    /\ UNCHANGED <<fetcher_vars, embedder_vars, run>>

NextEmbed == ProcessSpecification

SpecEmbed == InitEmbed /\ [][NextEmbed]_vars

\* ------------------------------------------------------------------------
\* Properties of the embedder
\* ------------------------------------------------------------------------
\* C6: process_specification returns a result and never raises, whatever the
\* specification and whatever entries of the persisted format the catalog
\* holds, Point geometries included.
C6_NeverRaises ==
  last.op = "process_specification" => ~last.result.raised

\* ------------------------------------------------------------------------
\* The variant generator applied to names, and the search that follows it
\* ------------------------------------------------------------------------
MaxVariants == 1

\* a configuration of the shape CityConfig allows, Rome's with one more
\* special case whose replacement is the empty list (line 271)
ExcludedConfig ==
  [RomeConfig EXCEPT !.special_cases =
     <<[k |-> <<"confine">>, v |-> [list |-> TRUE, items |-> <<>>]]>> \o @]

VariantCities == {RomeConfig, MilanConfig, ExcludedConfig}

VariantBases ==
  { <<"Roma">>, <<"roma">>, <<"Turati">>, <<"Filippo", SP, "Turati">>,
    <<"Anastasio", SP, "II">>, <<"Turati", SP, "II">>, <<"Roma", SP, "XII">>,
    <<"La", SP, "Marmora">>, <<"Duomo">>, <<"Giovanni", SP, "Giolitti">>,
    <<"Roma", SP, "confine">> }

VariantPrefixes == { <<>>, <<"Via", SP>>, <<"Piazza", SP>> }

\* names as extract_elements hands them over, and names the function accepts
\* beyond those: the empty string and names with a blank around them
VariantNames ==
  LET Plain == {p \o b : p \in VariantPrefixes, b \in VariantBases}
  IN Plain \cup {<<>>, <<SP>>}
     \cup {<<SP>> \o x : x \in {ViaRoma, <<"Turati">>}}
     \cup {x \o <<SP>> : x \in {ViaRoma, <<"Turati">>}}

InitVariants ==
  /\ args \in [name : VariantNames, city : VariantCities]
  /\ specification = <<>>
  /\ places_catalog = <<>>
  /\ cache = <<>>
  /\ stats = ZeroStats
  /\ disk = NoFile
  /\ last = NoCall
  /\ queried = [key \in FetchCities \X FetchNames |-> 0]
  /\ calls = 0
  /\ run = NoRun

\* self._generate_variants(name, city)
GenerateVariants ==
  /\ last' = [op |-> "_generate_variants",
              result |-> _generate_variants(args.name, args.city)]
  /\ UNCHANGED <<fetcher_vars, embedder_vars, run>>

\* fetch_place past its cache lookup (lines 790-846) for a name that is not
\* in the cache, in a city of the configuration args.city, outside any zone
FetchUncached ==
  /\ Len(_generate_variants(args.name, args.city)) <= MaxVariants
  /\ DirectCivicMatch(args.name) = 0
  /\ \E be \in Backends(args.name, args.city) :
       \E r \in {FetchNormal(<<>>, ZeroStats, CacheKey("RM", args.name), args.name,
                             args.city, <<>>, be)} :
         last' = [op |-> "fetch_place", ret |-> r.ret, path |-> r.path,
                  nominatim |-> r.nominatim, overpass |-> r.overpass,
                  answered |-> r.answered, stored |-> r.cache # <<>>]
  /\ UNCHANGED <<fetcher_vars, embedder_vars, run>>

NextVariants == GenerateVariants \/ FetchUncached

SpecVariants == InitVariants /\ [][NextVariants]_vars

\* ------------------------------------------------------------------------
\* Properties of the variant generator
\* ------------------------------------------------------------------------
IsVariants == last.op = "_generate_variants"

NoDuplicates(list) ==
  \A i, j \in 1..Len(list) : i # j => list[i] # list[j]

\* the base of the name contains a special-case key whose replacement is
\* the empty list
ExcludedName(name, city) ==
  \E i \in 1..Len(city.special_cases) :
    /\ city.special_cases[i].v.list
    /\ city.special_cases[i].v.items = <<>>
    /\ Contains(Lower(BaseName(name)), Lower(city.special_cases[i].k))

\* C11 as stated: the list has the untouched input name as its first element
\* and contains no string twice.
C11_NameFirstNoDuplicate ==
  IsVariants =>
    /\ last.result # <<>>
    /\ last.result[1] = args.name
    /\ NoDuplicates(last.result)

\* C11: the list contains no string twice; it is empty when the name is blank
\* or its base contains a special-case key replaced by the empty list, and
\* otherwise its first element is the name without the blanks around it, which
\* is the untouched name when it has none.
C11_StrippedNameFirst ==
  IsVariants =>
    /\ NoDuplicates(last.result)
    /\ IF ExcludedName(args.name, args.city) \/ Strip(args.name) = <<>>
       THEN last.result = <<>>
       ELSE last.result[1] = Strip(args.name)

\* a name whose special case repeats the name and its base: the repeated
\* candidates are dropped and the name comes first
C11_Witness ==
  /\ IsVariants
  /\ args.name = <<"Via", SP, "Duomo">>
  /\ args.city = MilanConfig
  /\ last.result[1] = args.name
  /\ Len(last.result) >= 3

\* ------------------------------------------------------------------------
\* The two bounding-box filters applied to geometry lists
\* ------------------------------------------------------------------------
MaxGeometries == 2
MaxFilterCalls == 2

\* rings and lines over three points inside the zone 'esquilino' (PEsq, PNear,
\* PMid) and one point of Rome outside it (PRm)
FilterRings ==
  { <<PEsq, PNear, PMid, PEsq>>,           \* closed, inside
    <<PEsq, PNear, PMid>>,                 \* not closed, inside
    <<PEsq, PRm, PNear, PMid, PEsq>>,      \* closed, one vertex outside
    <<PRm, PEsq, PNear, PMid, PRm>>,       \* closed at a vertex outside
    <<PEsq, PNear, PRm, PEsq>>,            \* closed, three vertices inside
    <<PEsq, PNear, PRm>>,                  \* two vertices inside
    <<PRm, PFar, PRm>> }                   \* outside

FilterLines ==
  { <<PEsq, PNear>>, <<PEsq, PRm>>, <<PRm, PEsq, PNear>>, <<PRm, PFar>> }

FilterGeometries ==
  {Point(p) : p \in {PEsq, PRm}}
  \cup {LineString(ps) : ps \in FilterLines}
  \cup {Polygon(ring) : ring \in FilterRings}

FilterBboxes == {Get(RomeConfig.zone_bboxes, <<"esquilino">>), RomeConfig.default_bbox}

InitFilter ==
  /\ args \in [geometries : UNION {[1..n -> FilterGeometries] : n \in 1..MaxGeometries},
               bbox : FilterBboxes]
  /\ specification = <<>>
  /\ places_catalog = <<>>
  /\ cache = <<>>
  /\ stats = ZeroStats
  /\ disk = NoFile
  /\ last = NoCall
  /\ queried = [key \in FetchCities \X FetchNames |-> 0]
  /\ calls = 0
  /\ run = NoRun

\* the counter of self.stats that _filter_geometries adds to (lines 371-374)
FilterTypes == {"zone", "city"}
FilterCounter(filter_type) == IF filter_type = "zone" THEN "zone_filtered" ELSE "filtered"

\* self._filter_geometries(geometries, bbox, filter_type)
FilterGeometriesFetcher ==
  /\ calls < MaxFilterCalls
  /\ \E filter_type \in FilterTypes :
       \E r \in {_filter_geometries(args.geometries, args.bbox)} :
         /\ last' = [op |-> "_filter_geometries", given |-> args.geometries,
                     filter_type |-> filter_type, before |-> stats, result |-> r]
         /\ stats' = [stats EXCEPT ![FilterCounter(filter_type)] = @ + r.dropped]
  /\ calls' = calls + 1
  /\ UNCHANGED <<cache, disk, queried, embedder_vars, run>>

\* self._filter_geometries(filtered, bbox, filter_type) on what the call
\* before returned
FilterAgainFetcher ==
  /\ calls < MaxFilterCalls
  /\ last.op = "_filter_geometries"
  /\ \E filter_type \in FilterTypes :
       \E r \in {_filter_geometries(last.result.kept, args.bbox)} :
         /\ last' = [op |-> "_filter_geometries again", given |-> last.result.kept,
                     filter_type |-> filter_type, before |-> stats, result |-> r]
         /\ stats' = [stats EXCEPT ![FilterCounter(filter_type)] = @ + r.dropped]
  /\ calls' = calls + 1
  /\ UNCHANGED <<cache, disk, queried, embedder_vars, run>>

\* filter_geometries_by_bbox(geometries, bbox)
FilterGeometriesEmbedder ==
  /\ last' = [op |-> "filter_geometries_by_bbox", given |-> args.geometries,
              result |-> filter_geometries_by_bbox(args.geometries, args.bbox)]
  /\ UNCHANGED <<fetcher_vars, embedder_vars, run>>

\* filter_geometries_by_bbox(filtered, bbox) on what the call before returned
FilterAgainEmbedder ==
  /\ last.op = "filter_geometries_by_bbox"
  /\ last' = [op |-> "filter_geometries_by_bbox again", given |-> last.result,
              result |-> filter_geometries_by_bbox(last.result, args.bbox)]
  /\ UNCHANGED <<fetcher_vars, embedder_vars, run>>

NextFilter ==
  \/ FilterGeometriesFetcher
  \/ FilterAgainFetcher
  \/ FilterGeometriesEmbedder
  \/ FilterAgainEmbedder

SpecFilter == InitFilter /\ [][NextFilter]_vars

\* ------------------------------------------------------------------------
\* Properties of the bounding-box filters
\* ------------------------------------------------------------------------
\* the step applies one of the two filters to the geometries of args
IsFilter == last.op \in {"_filter_geometries", "filter_geometries_by_bbox"}

\* the step applies a filter to what the same filter returned
IsFilterAgain == last.op \in {"_filter_geometries again", "filter_geometries_by_bbox again"}

\* the geometries a filter call returned
Output(call) ==
  IF call.op \in {"_filter_geometries", "_filter_geometries again"}
  THEN call.result.kept ELSE call.result

InsideBbox(p, bbox) ==
  bbox[1] <= p[1] /\ p[1] <= bbox[3] /\ bbox[2] <= p[2] /\ p[2] <= bbox[4]

\* the coordinates of a geometry, as a sequence of points
PointsOf(geom) ==
  IF geom.type = "Point" THEN <<geom.coordinates>>
  ELSE IF geom.type = "LineString" THEN geom.coordinates
  ELSE geom.coordinates[1]

Shape(geom) == [type |-> geom.type, coordinates |-> geom.coordinates]

Shapes(geoms) == [i \in 1..Len(geoms) |-> Shape(geoms[i])]

IsPointInside(geom) == geom.type = "Point" /\ InsideBbox(geom.coordinates, args.bbox)

IsPointGeometry(geom) == geom.type = "Point"

\* C12: every coordinate in the output of either filter lies inside the bbox,
\* and the Point geometries of the output are the Point geometries of the
\* input that lie inside the bbox.
C12_OutputInsideBbox ==
  IsFilter =>
    /\ \A i \in 1..Len(Output(last)) :
         \A k \in 1..Len(PointsOf(Output(last)[i])) :
           InsideBbox(PointsOf(Output(last)[i])[k], args.bbox)
    /\ Shapes(SelectSeq(Output(last), IsPointGeometry))
         = Shapes(SelectSeq(args.geometries, IsPointInside))

\* C13: a filter applied to what it returned, with the same bbox, returns the
\* same geometries (types and coordinate sequences), and the fetcher's filter
\* then reports zero dropped points.
C13_Idempotent ==
  IsFilterAgain =>
    /\ Shapes(Output(last)) = Shapes(last.given)
    /\ last.op = "_filter_geometries again" => last.result.dropped = 0

\* the fetcher's filter has cut a ring and closed it, and is applied again
C13_Witness ==
  /\ last.op = "_filter_geometries again"
  /\ args.geometries = <<Polygon(<<PRm, PEsq, PNear, PMid, PRm>>)>>
  /\ last.given = <<Polygon(<<PEsq, PNear, PMid, PEsq>>)>>
  /\ last.result.kept = last.given

\* the outer ring of a Polygon cut to the bbox, and closed
RECURSIVE InsidePoints(_, _)
InsidePoints(ps, bbox) ==
  IF ps = <<>> THEN <<>>
  ELSE (IF InsideBbox(Head(ps), bbox) THEN <<Head(ps)>> ELSE <<>>)
       \o InsidePoints(Tail(ps), bbox)

ClosedRing(ps) == IF ps[1] = ps[Len(ps)] THEN ps ELSE Append(ps, ps[1])

IsPolygonGeometry(geom) == geom.type = "Polygon"

IsPolygonWithThreeInside(geom) ==
  geom.type = "Polygon" /\ Len(InsidePoints(geom.coordinates[1], args.bbox)) >= 3

\* C20: either filter keeps the Polygons with at least 3 vertices of the outer
\* ring inside the bbox and no others, and every Polygon it returns has a
\* closed ring: the retained vertices, followed by the first of them when the
\* retained ring is not closed already.
C20_PolygonKeptClosed ==
  IsFilter =>
    LET kept == SelectSeq(Output(last), IsPolygonGeometry)
        due == SelectSeq(args.geometries, IsPolygonWithThreeInside)
    IN /\ Len(kept) = Len(due)
       /\ \A i \in 1..Len(kept) :
            kept[i].coordinates
              = <<ClosedRing(InsidePoints(due[i].coordinates[1], args.bbox))>>

\* ------------------------------------------------------------------------
\* Properties of the composite results of the embedder
\* ------------------------------------------------------------------------
IsProcess == last.op = "process_specification"

\* what the call looked up: the parsed specification and the catalog entries
Parsed == parse_specification(specification)

Entry(place_name) == get_place_data(places_catalog, place_name, last.city_config)

CallZoneBbox == SpecZoneBbox(last.zone_name, last.city_config)

\* every point of a catalog entry: those of its geometries, then its special points
RECURSIVE GeometriesPoints(_)
GeometriesPoints(geoms) ==
  IF geoms = <<>> THEN <<>> ELSE PointsOf(Head(geoms)) \o GeometriesPoints(Tail(geoms))

EntryPoints(data) ==
  GeometriesPoints(GetList(data, "geometries"))
  \o GeometriesPoints(SelectSeq(GetList(data, "special_coordinates"), IsPointGeometry))

\* the entry's geometries, cut to the zone when the call has a zone bbox
ZoneFiltered(data) == StreetFallback(data, CallZoneBbox)

\* C14: for an intersection whose two streets are both in the catalog, the
\* pair of points, one of each street, at the least distance decides: below
\* 100 m the result is exactly one special point, the mean of the pair's
\* latitudes and longitudes, flagged as a calculated intersection; otherwise
\* the result holds the geometries of both streets and no calculated point.
C14_IntersectionPoint ==
  (/\ IsProcess
   /\ Parsed.type = "incrocio"
   /\ Entry(Parsed.primary) # NoData
   /\ Entry(Parsed.intersecting) # NoData)
  => /\ ~last.result.raised
     /\ LET ps == EntryPoints(Entry(Parsed.primary))
            qs == EntryPoints(Entry(Parsed.intersecting))
            x == NearestPair(ps, qs)
            p1 == ps[x[1]]
            p2 == qs[x[2]]
            special == last.result.special_coordinates
        IN IF calculate_distance(p1, p2) < Threshold
           THEN /\ Len(special) = 1
                /\ special[1].type = "Point"
                /\ 2 * special[1].coordinates[1] = p1[1] + p2[1]
                /\ 2 * special[1].coordinates[2] = p1[2] + p2[2]
                /\ special[1].calculated_intersection
           ELSE /\ special = <<>>
                /\ ~last.result.intersection_calculated
                /\ last.result.geometries
                     = ZoneFiltered(Entry(Parsed.primary))
                       \o ZoneFiltered(Entry(Parsed.intersecting))

\* C15: for a tract whose primary street is in the catalog and of whose two
\* endpoints at least one is not, the geometries of the result are those of
\* the primary street, cut to the zone.
C15_TractFallback ==
  (/\ IsProcess
   /\ Parsed.type = "tratto"
   /\ Len(Parsed.endpoints) = 2
   /\ Entry(Parsed.primary) # NoData
   /\ \E i \in 1..2 : Entry(Parsed.endpoints[i]) = NoData)
  => /\ ~last.result.raised
     /\ last.result.geometries = ZoneFiltered(Entry(Parsed.primary))

\* C16: for "X (fronte civico N)" with no entry "X civico N" in the catalog
\* and street X in it, the geometries of the result are those of street X,
\* cut to the zone.
C16_CivicFallback ==
  (/\ IsProcess
   /\ Parsed.type = "civico"
   /\ Entry(CivicName(Parsed.primary, Parsed.civic_number)) = NoData
   /\ Entry(Parsed.primary) # NoData)
  => /\ ~last.result.raised
     /\ last.result.geometries = ZoneFiltered(Entry(Parsed.primary))

\* ------------------------------------------------------------------------
\* Properties of the search that follows the variant generator
\* ------------------------------------------------------------------------
\* C17: when the base of the name contains a special-case key whose
\* replacement is the empty list, the variant list is empty, and fetch_place
\* sends no search for the name and reports it as not found.
C17_ExcludedNotSearched ==
  ExcludedName(args.name, args.city) =>
    /\ IsVariants => last.result = <<>>
    /\ last.op = "fetch_place" =>
         /\ last.nominatim + last.overpass = 0
         /\ last.ret = "False"

\* a name ending in a Roman numeral, and its Italian ordinal word
RomanOrdinal(tok) ==
  CASE tok = "I" -> "Primo"
    [] tok = "II" -> "Secondo"
    [] tok = "III" -> "Terzo"
    [] tok = "IV" -> "Quarto"
    [] tok = "V" -> "Quinto"
    [] tok = "VI" -> "Sesto"
    [] tok = "VII" -> "Settimo"
    [] tok = "VIII" -> "Ottavo"
    [] tok = "IX" -> "Nono"
    [] tok = "X" -> "Decimo"
    [] tok = "XI" -> "Undicesimo"
    [] tok = "XII" -> "Dodicesimo"
    [] OTHER -> tok

EndsInRoman(name) ==
  /\ Len(name) >= 3
  /\ name[Len(name) - 1] = SP
  /\ RomanOrdinal(name[Len(name)]) # name[Len(name)]

WithOrdinal(name) == [name EXCEPT ![Len(name)] = RomanOrdinal(@)]

\* C18: for a name that ends in a Roman numeral I..XII, the variant list
\* contains the name with the numeral replaced by its Italian ordinal word,
\* whether or not the special cases of the city have an entry for the name.
C18_RomanOrdinalVariant ==
  (IsVariants /\ EndsInRoman(args.name)) =>
    \E i \in 1..Len(last.result) : last.result[i] = WithOrdinal(args.name)

\* ------------------------------------------------------------------------
\* Properties of the bounding boxes
\* ------------------------------------------------------------------------
\* every bounding box written in city_configs.py, in micro-degrees: the
\* default bbox and the zone bboxes of Rome, Milan, Bologna and Padova
ConfiguredBboxes ==
  { <<41800000, 12400000, 42000000, 12600000>>,
    <<41888000, 12495000, 41905000, 12520000>>,
    <<41872067, 12508718, 41884657, 12539617>>,
    <<41889000, 12410000, 41925000, 12460000>>,
    <<45352097, 8980637, 45590120, 9385071>>,
    <<45460000, 9175000, 45470000, 9205000>>,
    <<45440000, 9160000, 45465000, 9195000>>,
    <<45468000, 9192000, 45494000, 9215000>>,
    <<45475000, 9178000, 45495000, 9198000>>,
    <<45418000, 9210000, 45445000, 9250000>>,
    <<45360970, 9120197, 45390000, 9201908>>,
    <<45481992, 9211702, 45511592, 9253951>>,
    <<44450000, 11250000, 44550000, 11400000>>,
    <<44490000, 11335000, 44505000, 11355000>>,
    <<44500325, 11330073, 44524318, 11365108>>,
    <<45364979, 11825855, 45445488, 11925435>>,
    <<45411442, 11870238, 45424275, 11889816>>,
    <<45416841, 11868553, 45430094, 11900153>> }

ProperBbox(bbox) == bbox[1] < bbox[3] /\ bbox[2] < bbox[4]

\* zone_bboxes of the last call of fetch_place (lines 767-772)
CallZoneBboxes == ZoneBboxes(Get(CITIES, last.city_prefix), last.zones)

\* C19: every bounding box of the city configurations, and every bounding box
\* that fetch_place obtains from get_zone_bbox and union_bboxes for its
\* filters, has south < north and west < east.
C19_ProperBboxes ==
  /\ \A bbox \in ConfiguredBboxes : ProperBbox(bbox)
  /\ \A i \in 1..Len(CITIES) :
       /\ ProperBbox(CITIES[i].v.default_bbox)
       /\ \A z \in 1..Len(CITIES[i].v.zone_bboxes) : ProperBbox(CITIES[i].v.zone_bboxes[z].v)
  /\ (last.op = "fetch_place" /\ last.path # "cache") =>
       /\ \A i \in 1..Len(CallZoneBboxes) : ProperBbox(CallZoneBboxes[i])
       /\ CallZoneBboxes # <<>> => ProperBbox(union_bboxes(CallZoneBboxes))

\* ------------------------------------------------------------------------
\* Properties of the dropped count of _filter_geometries
\* ------------------------------------------------------------------------
IsFetcherFilter == last.op \in {"_filter_geometries", "_filter_geometries again"}

\* the points of a list of geometries, as a set
PointSet(geoms) == UNION {Range(PointsOf(geoms[i])) : i \in 1..Len(geoms)}

\* the positions <<i, k>> of the points of a list of geometries
PointPositions(geoms) ==
  UNION {{<<i, k>> : k \in 1..Len(PointsOf(geoms[i]))} : i \in 1..Len(geoms)}

\* the number of points of the input that do not appear in the output
MissingPoints(given, kept) ==
  Cardinality({ik \in PointPositions(given) :
                 PointsOf(given[ik[1]])[ik[2]] \notin PointSet(kept)})

\* C21: the dropped count returned by _filter_geometries is non-negative and
\* is the number of input points that do not appear in the kept output, and
\* the statistics counter of the filter type grows by that number.
C21_DroppedCount ==
  IsFetcherFilter =>
    /\ last.result.dropped >= 0
    /\ last.result.dropped = MissingPoints(last.given, last.result.kept)
    /\ stats[FilterCounter(last.filter_type)]
         = last.before[FilterCounter(last.filter_type)]
           + MissingPoints(last.given, last.result.kept)

\* ------------------------------------------------------------------------
\* The two nearest-pair computations applied to catalog entries
\* ------------------------------------------------------------------------
\* catalog entries over the points of the distance table: two of them hold a
\* coordinate pair that is no position on earth
NearestPlaces ==
  { [type |-> "street", geometries |-> <<LineString(<<PEsq, PNear, PMid>>)>>],
    [type |-> "street", geometries |-> <<LineString(<<PEsq, PRm>>)>>,
     special_coordinates |-> <<Point(PMid)>>],
    [type |-> "street", geometries |-> <<Polygon(<<PEsq, PNear, PMid, PEsq>>)>>],
    [type |-> "street", geometries |-> <<LineString(<<PZero, PEsq>>)>>],
    [type |-> "street", geometries |-> <<LineString(<<PNear, POut>>)>>],
    [type |-> "civic", geometries |-> <<>>, special_coordinates |-> <<Point(PNear)>>],
    [type |-> "civic", geometries |-> <<>>, special_coordinates |-> <<Point(PZero)>>],
    [type |-> "civic", geometries |-> <<>>, special_coordinates |-> <<Point(PMid)>>],
    [type |-> "street", geometries |-> <<LineString(<<PRm>>)>>] }

NearestBboxes == {NoBbox, ZeroBbox, Get(RomeConfig.zone_bboxes, <<"esquilino">>)}

InitNearest ==
  /\ args \in [street : NearestPlaces, endpoint1 : NearestPlaces, endpoint2 : NearestPlaces,
               zone_bbox : NearestBboxes]
  /\ specification = <<>>
  /\ places_catalog = <<>>
  /\ cache = <<>>
  /\ stats = ZeroStats
  /\ disk = NoFile
  /\ last = NoCall
  /\ queried = [key \in FetchCities \X FetchNames |-> 0]
  /\ calls = 0
  /\ run = NoRun

\* best_point1 and best_point2 after the loops of lines 177-187, <<>> when
\* find_intersection_point returns before them
BestPoints(place1_data, place2_data, zone_bbox) ==
  LET e1 == extract_all_coordinates(place1_data, zone_bbox)
      e2 == extract_all_coordinates(place2_data, zone_bbox)
  IN IF e1.raised \/ e2.raised THEN <<>>
     ELSE IF e1.points = <<>> \/ e2.points = <<>> THEN <<>>
     ELSE << e1.points[NearestPair(e1.points, e2.points)[1]],
             e2.points[NearestPair(e1.points, e2.points)[2]] >>

\* nearest_to_end1 and nearest_to_end2 after the loops of lines 214-226, <<>>
\* when compute_tract_segment returns before them
NearestToEnds(street_data, endpoint1_data, endpoint2_data, zone_bbox) ==
  LET s == extract_all_coordinates(street_data, zone_bbox)
      e1 == extract_all_coordinates(endpoint1_data, zone_bbox)
      e2 == extract_all_coordinates(endpoint2_data, zone_bbox)
  IN IF s.raised \/ e1.raised \/ e2.raised THEN <<>>
     ELSE IF s.points = <<>> \/ e1.points = <<>> \/ e2.points = <<>> THEN <<>>
     ELSE << s.points[NearestPair(s.points, e1.points)[1]],
             s.points[NearestPair(s.points, e2.points)[1]] >>

\* find_intersection_point(place1_data, place2_data, zone_bbox=zone_bbox)
FindIntersectionPoint ==
  /\ last' = [op |-> "find_intersection_point",
              chosen |-> BestPoints(args.endpoint1, args.endpoint2, args.zone_bbox),
              result |-> find_intersection_point(args.endpoint1, args.endpoint2, args.zone_bbox)]
  /\ UNCHANGED <<fetcher_vars, embedder_vars, run>>

\* compute_tract_segment(street_data, endpoint1_data, endpoint2_data, zone_bbox=zone_bbox)
ComputeTractSegment ==
  /\ last' = [op |-> "compute_tract_segment",
              chosen |-> NearestToEnds(args.street, args.endpoint1, args.endpoint2,
                                       args.zone_bbox),
              result |-> compute_tract_segment(args.street, args.endpoint1, args.endpoint2,
                                               args.zone_bbox)]
  /\ UNCHANGED <<fetcher_vars, embedder_vars, run>>

NextNearest == FindIntersectionPoint \/ ComputeTractSegment

SpecNearest == InitNearest /\ [][NextNearest]_vars

\* ------------------------------------------------------------------------
\* Properties of the nearest-pair computations
\* ------------------------------------------------------------------------
\* a latitude and a longitude of a position on earth other than (0, 0)
ValidPair(p) ==
  /\ -90000000 <= p[1] /\ p[1] <= 90000000
  /\ -180000000 <= p[2] /\ p[2] <= 180000000
  /\ p # <<0, 0>>

IsNearest == last.op \in {"find_intersection_point", "compute_tract_segment"}

\* C22: a coordinate pair out of range or equal to (0, 0) is no member of the
\* pair chosen by find_intersection_point and no nearest point chosen by
\* compute_tract_segment, with or without a zone bbox.
C22_InvalidPairExcluded ==
  IsNearest => \A i \in 1..Len(last.chosen) : ValidPair(last.chosen[i])

\* C23: when compute_tract_segment has found a nearest street point for each
\* endpoint, both are among the coordinates of the geometries it returns.
C23_NearestPointsKept ==
  (last.op = "compute_tract_segment" /\ last.chosen # <<>>) =>
    /\ ~last.result.raised
    /\ \A i \in 1..2 : last.chosen[i] \in PointSet(last.result.geometries)

\* ------------------------------------------------------------------------
\* process_ordinances (coordinates_fetcher.py, lines 848-933)
\* ------------------------------------------------------------------------
\* str.upper() of the tokens of an ordinance id
UpperTok(tok) ==
  CASE tok = "rm" -> "RM"
    [] tok = "mi" -> "MI"
    [] tok = "ord" -> "ORD"
    [] OTHER -> tok

Upper(t) == [i \in 1..Len(t) |-> UpperTok(t[i])]

\* _detect_city: the first prefix of CITIES found in the id, "" for None
_detect_city(ord_id) ==
  LET Hit(e) == Contains(Upper(ord_id), <<e.k>>)
  IN IF FirstIndex(CITIES, Hit) # 0 THEN CITIES[FirstIndex(CITIES, Hit)].k ELSE ""

\* the orders in which a Python set may be iterated
Orders(S) ==
  {f \in [1..Cardinality(S) -> S] : \A i, j \in 1..Cardinality(S) : i # j => f[i] # f[j]}

\* lines 878-883: one element of a specification noted in all_elements
NoteElement(all_elements, element, city_prefix, zone_name) ==
  IF HasKey(all_elements, element)
  THEN Put(all_elements, element,
           [Get(all_elements, element) EXCEPT !.zones = @ \cup {zone_name}])
  ELSE Put(all_elements, element, [city |-> city_prefix, zones |-> {zone_name}])

\* lines 876-883: the elements of one specification, in the order given
RECURSIVE NoteElements(_, _, _, _)
NoteElements(all_elements, elements, city_prefix, zone_name) ==
  IF elements = <<>> THEN all_elements
  ELSE NoteElements(NoteElement(all_elements, Head(elements), city_prefix, zone_name),
                    Tail(elements), city_prefix, zone_name)

\* lines 875-883: the specifications of one zone; extract_elements returns a
\* set, so every order of its elements is one all_elements the loop may build
RECURSIVE NoteLocations(_, _, _, _)
NoteLocations(alls, locations, city_prefix, zone_name) ==
  IF locations = <<>> THEN alls
  ELSE NoteLocations(
         UNION {{NoteElements(a, o, city_prefix, zone_name) :
                   o \in Orders(extract_elements(Head(locations)))} : a \in alls},
         Tail(locations), city_prefix, zone_name)

\* lines 874-883: the zones of one ordinance
RECURSIVE NoteZones(_, _, _)
NoteZones(alls, zones, city_prefix) ==
  IF zones = <<>> THEN alls
  ELSE NoteZones(NoteLocations(alls, Head(zones).v, city_prefix, Head(zones).k),
                 Tail(zones), city_prefix)

\* lines 865-883: the loop over the ordinances; start counts the ordinances
\* met and the loop is left when it exceeds 2
RECURSIVE NoteOrdinances(_, _, _)
NoteOrdinances(alls, ordinances, start) ==
  IF ordinances = <<>> \/ start + 1 > 2 THEN alls
  ELSE LET city_prefix == _detect_city(Head(ordinances).k)
       IN NoteOrdinances(
            IF city_prefix = "" \/ ~HasKey(CITIES, city_prefix) THEN alls
            ELSE NoteZones(alls, Head(ordinances).v, city_prefix),
            Tail(ordinances), start + 1)

\* lines 888-895: by_city, the elements of each city in the order of all_elements
RECURSIVE ByCity(_)
ByCity(all_elements) ==
  IF all_elements = <<>> THEN <<>>
  ELSE LET before == ByCity(Upto(all_elements, Len(all_elements) - 1))
           e == all_elements[Len(all_elements)]
       IN Put(before, e.v.city,
              (IF HasKey(before, e.v.city) THEN Get(before, e.v.city) ELSE <<>>) \o <<e.k>>)

\* lines 889-896: zones_info
ZonesInfo(all_elements) == [i \in 1..Len(all_elements) |-> [k |-> all_elements[i].k, v |-> all_elements[i].v.zones]]

\* ---- the corpus and the backend of a run ----------------------------------
ViaTurbigo == <<"Via", SP, "Turbigo">>
ViaDuomo == <<"Via", SP, "Duomo">>

\* a point inside the city and, for the cities of the model, inside the zone
\* used for it
CityPoint(city_prefix) == IF city_prefix = "MI" THEN PMi ELSE PEsq

\* what the backend answers during one call of a run: every request fails;
\* Nominatim names a node that Overpass places inside the city; Nominatim
\* fails and the direct Overpass query returns a way inside the city
RunOutcomes == {"fail", "found", "direct"}

RunBackend(place_name, city_prefix, outcome) ==
  LET city == Get(CITIES, city_prefix)
      p == CityPoint(city_prefix)
  IN IF DirectCivicMatch(place_name) # 0
     THEN [variant |-> <<>>, direct |-> <<>>,
           civic |-> [i \in 1..Len(_generate_variants(
                                     Strip(Upto(place_name, DirectCivicMatch(place_name))), city)) |->
                        CivicAnswer(IF outcome = "found" THEN p ELSE <<>>, "timeout")]]
     ELSE [variant |-> [i \in 1..Len(_generate_variants(place_name, city)) |->
                          VariantAnswer(IF outcome = "found" THEN [kind |-> "node", p |-> p]
                                        ELSE [kind |-> "fail", p |-> PFar], "timeout", city)],
           direct |-> [j \in 1..Len(DirectQueries(DirectSearchTerms(place_name, city))) |->
                         DirectAnswer(IF outcome = "direct" THEN <<p, p>> ELSE <<>>, "timeout")],
           civic |-> <<>>]

\* json.load of ordinanze.json: ordinance id -> zones -> specifications
Ordinance(ord_id, zone_name, locations) ==
  [k |-> ord_id, v |-> <<[k |-> zone_name, v |-> locations]>>]

\* eleven street names, for a run that meets the save of every tenth element
ManyNames ==
  << <<"Via", SP, "Roma">>, <<"Via", SP, "Turbigo">>, <<"Via", SP, "Duomo">>,
     <<"Via", SP, "Meda">>, <<"Via", SP, "Secondo">>, <<"Via", SP, "Anastasio">>,
     <<"Via", SP, "Filippo">>, <<"Via", SP, "Giovanni">>, <<"Via", SP, "Marmora">>,
     <<"Via", SP, "Lamarmora">>, <<"Via", SP, "Pieralice">> >>

Corpora ==
  { \* the same street in an ordinance of Rome and in one of Milan
    [exists |-> TRUE, outcomes |-> RunOutcomes,
     ordinances |-> << Ordinance(<<"RM", "_", "1">>, <<"esquilino">>, <<ViaRoma>>),
                       Ordinance(<<"MI", "_", "1">>, <<"duomo">>, <<ViaRoma>>) >>],
    \* three ordinances of Rome
    [exists |-> TRUE, outcomes |-> RunOutcomes,
     ordinances |-> << Ordinance(<<"RM", "_", "1">>, <<"esquilino">>, <<ViaRoma>>),
                       Ordinance(<<"rm", "_", "2">>, <<"esquilino">>, <<ViaTurbigo>>),
                       Ordinance(<<"RM", "_", "3">>, <<"esquilino">>, <<ViaDuomo>>) >>],
    \* an ordinance of no known city, and a street with a civic number
    [exists |-> TRUE, outcomes |-> RunOutcomes,
     ordinances |-> << Ordinance(<<"XX", "_", "1">>, <<"esquilino">>, <<ViaTurbigo>>),
                       Ordinance(<<"ord", "_", "RM", "_", "2">>, <<"zona", "_", "esquilino">>,
                                 <<ViaRomaCivico, ViaRoma>>) >>],
    \* one ordinance with eleven streets
    [exists |-> TRUE, outcomes |-> {"fail", "found"},
     ordinances |-> << Ordinance(<<"RM", "_", "1">>, <<"esquilino">>, ManyNames) >>],
    \* no ordinanze.json
    [exists |-> FALSE, outcomes |-> {}, ordinances |-> <<>>] }

\* a cache file left by a run before this one
RunFiles ==
  { NoFile,
    [exists |-> TRUE,
     content |-> <<[k |-> CacheKey("RM", ViaRoma),
                    v |-> [type |-> "street", geometries |-> <<Point(PEsq)>>]]>>] }

InitRun ==
  /\ args \in Corpora
  /\ disk \in RunFiles
  /\ cache = _load_cache(disk)
  /\ stats = ZeroStats
  /\ last = NoCall
  /\ queried = [key \in FetchCities \X FetchNames |-> 0]
  /\ calls = 0
  /\ specification = <<>>
  /\ places_catalog = <<>>
  /\ run = NoRun

\* the position after element i of city c: the next element, the next city,
\* or the final save of line 925
Advance(by_city, c, i) ==
  IF by_city = <<>> THEN [at |-> "final", c |-> 1, i |-> 1]
  ELSE IF i < Len(by_city[c].v) THEN [at |-> "fetch", c |-> c, i |-> i + 1]
  ELSE IF c < Len(by_city) THEN [at |-> "fetch", c |-> c + 1, i |-> 1]
  ELSE [at |-> "final", c |-> c, i |-> i]

\* lines 854-896: ordinanze.json is read, parsed and grouped by city
ParseOrdinances ==
  /\ run.at = "idle"
  /\ IF ~args.exists
     THEN run' = [at |-> "done", by_city |-> <<>>, zones_info |-> <<>>, c |-> 1, i |-> 1,
                  called |-> <<>>]
     ELSE \E all_elements \in NoteOrdinances({<<>>}, args.ordinances, 0) :
            run' = [at |-> IF all_elements = <<>> THEN "final" ELSE "fetch",
                    by_city |-> ByCity(all_elements),
                    zones_info |-> ZonesInfo(all_elements),
                    c |-> 1, i |-> 1, called |-> <<>>]
  /\ last' = [op |-> "parse ordinances"]
  /\ UNCHANGED <<cache, stats, disk, queried, calls, embedder_vars>>

\* lines 916-918: self.fetch_place(element, city_prefix, zones_info) for the
\* next element of the city; the zones of the element are a set
FetchElement ==
  /\ run.at = "fetch"
  /\ \E outcome \in args.outcomes :
       \E zones \in Orders(Get(run.zones_info, run.by_city[run.c].v[run.i])) :
         \E r \in {fetch_place(cache, stats, run.by_city[run.c].v[run.i], run.by_city[run.c].k,
                               zones,
                               RunBackend(run.by_city[run.c].v[run.i], run.by_city[run.c].k,
                                          outcome))} :
           /\ cache' = r.cache
           /\ stats' = r.stats
           /\ last' = [op |-> "fetch element", place_name |-> run.by_city[run.c].v[run.i],
                       city_prefix |-> run.by_city[run.c].k, ret |-> r.ret, path |-> r.path]
  /\ run' = [run EXCEPT
               !.at = IF run.i % 10 = 0 THEN "save" ELSE Advance(run.by_city, run.c, run.i).at,
               !.c = IF run.i % 10 = 0 THEN @ ELSE Advance(run.by_city, run.c, run.i).c,
               !.i = IF run.i % 10 = 0 THEN @ ELSE Advance(run.by_city, run.c, run.i).i,
               !.called = Append(@, <<run.by_city[run.c].k, run.by_city[run.c].v[run.i]>>)]
  /\ calls' = calls + 1
  /\ UNCHANGED <<disk, queried, embedder_vars>>

\* lines 921-922: the save after every tenth element of a city
SaveProgress ==
  /\ run.at = "save"
  /\ disk' = _save_cache(cache)
  /\ run' = [run EXCEPT !.at = Advance(run.by_city, run.c, run.i).at,
                        !.c = Advance(run.by_city, run.c, run.i).c,
                        !.i = Advance(run.by_city, run.c, run.i).i]
  /\ last' = [op |-> "save progress"]
  /\ UNCHANGED <<cache, stats, queried, calls, embedder_vars>>

\* line 925: the final save
FinalSave ==
  /\ run.at = "final"
  /\ disk' = _save_cache(cache)
  /\ run' = [run EXCEPT !.at = "done"]
  /\ last' = [op |-> "final save"]
  /\ UNCHANGED <<cache, stats, queried, calls, embedder_vars>>

NextRun == ParseOrdinances \/ FetchElement \/ SaveProgress \/ FinalSave

SpecRun == InitRun /\ [][NextRun]_vars

\* ------------------------------------------------------------------------
\* Properties of process_ordinances
\* ------------------------------------------------------------------------
\* the keys of the entries of the in-memory cache that the file does not hold
Unsaved ==
  {cache[i].k : i \in {j \in 1..Len(cache) :
                         ~(disk.exists /\ HasKey(disk.content, cache[j].k)
                           /\ Get(disk.content, cache[j].k) = cache[j].v)}}

\* C24: at every point of process_ordinances at most one resolved entry is in
\* the in-memory cache and absent from the last file written.
C24_AtMostOneUnsaved ==
  run.at # "idle" => Cardinality(Unsaved) <= 1

\* the <<city prefix, element>> pairs of the corpus whose ordinance names a
\* known city
CorpusElements ==
  UNION {UNION {UNION {{<<_detect_city(args.ordinances[o].k), e>> :
                          e \in extract_elements(args.ordinances[o].v[z].v[s])} :
                       s \in 1..Len(args.ordinances[o].v[z].v)} :
                z \in 1..Len(args.ordinances[o].v)} :
         o \in {n \in 1..Len(args.ordinances) : _detect_city(args.ordinances[n].k) # ""}}

\* C28: when process_ordinances is over, fetch_place has been called for every
\* element of every specification of every ordinance of a known city.
C28_EveryElementFetched ==
  run.at = "done" => \A x \in CorpusElements : x \in Range(run.called)

\* C29: when process_ordinances is over, an element that occurs in ordinances
\* of two cities has been fetched with the prefix of each of them.
C29_OncePerCity ==
  run.at = "done" =>
    \A x \in CorpusElements, y \in CorpusElements :
      (x[2] = y[2] /\ x[1] # y[1]) =>
        /\ x \in Range(run.called)
        /\ y \in Range(run.called)

\* ------------------------------------------------------------------------
\* Agreement of the two parsers
\* ------------------------------------------------------------------------
\* C25: every place name that parse_specification lists in 'places' is one of
\* the elements that extract_elements returns for the same specification.
C25_ParserAgreement ==
  last.op = "parse_specification" =>
    \A i \in 1..Len(last.result.places) :
      last.result.places[i] \in extract_elements(specification)

\* ------------------------------------------------------------------------
\* _get_geometry applied to the answers of Overpass, and the variant path
\* that follows it
\* ------------------------------------------------------------------------
\* a way without a name tag, as an Overpass element
UnnamedWay(amenity) ==
  [type |-> "way", lat |-> 0, lon |-> 0, geometry |-> <<>>,
   has_name |-> FALSE, piazza |-> FALSE, amenity |-> amenity]

\* answers to the element query "out tags"
TagAnswers ==
  {FailResponse(fk) : fk \in FailKinds}
  \cup {OkResponse(<<NodeElement(p)>>) : p \in {PEsq, PFar}}
  \cup {OkResponse(<<WayElement(<<>>)>>)}
  \cup {OkResponse(<<UnnamedWay(a)>>) : a \in {"", "marketplace"}}

\* answers to the query of the ways of that name
NameAnswers ==
  {FailResponse(fk) : fk \in FailKinds}
  \cup {OkResponse(<<WayElement(coords)>>) :
          coords \in {<<PEsq>>, <<PEsq, PNear>>, <<PEsq, PNear, PMid, PEsq>>, <<PFar, PFar>>}}
  \cup {OkResponse(<<WayElement(<<PEsq, PNear>>), WayElement(<<PNear, PMid>>)>>)}

InitGeometry ==
  /\ args \in [tags : TagAnswers, byname : NameAnswers]
  /\ specification = <<>>
  /\ places_catalog = <<>>
  /\ cache = <<>>
  /\ stats = ZeroStats
  /\ disk = NoFile
  /\ last = NoCall
  /\ queried = [key \in FetchCities \X FetchNames |-> 0]
  /\ calls = 0
  /\ run = NoRun

\* self._get_geometry(osm_id, city, place_name)
GetGeometry ==
  /\ last' = [op |-> "_get_geometry", result |-> _get_geometry(args.tags, args.byname)]
  /\ UNCHANGED <<fetcher_vars, embedder_vars, run>>

\* what Nominatim answers when it names one way of Rome
NominatimWay ==
  OkResponse(<<[osm_type |-> "way", class |-> "highway", type |-> "residential",
                display_name |-> RomeConfig.city_pattern, osm_id |-> 1]>>)

\* fetch_place('Via Roma', 'RM', {}) on an empty cache while Nominatim names a
\* way for every variant, Overpass answers as in args and the direct query fails
FetchNamedWay ==
  /\ \E r \in {FetchNormal(<<>>, ZeroStats, CacheKey("RM", ViaRoma), ViaRoma, RomeConfig, <<>>,
                           [variant |-> [i \in 1..Len(_generate_variants(ViaRoma, RomeConfig)) |->
                                           [nominatim |-> NominatimWay, tags |-> args.tags,
                                            byname |-> args.byname]],
                            direct |-> [j \in 1..Len(DirectQueries(DirectSearchTerms(ViaRoma, RomeConfig))) |->
                                          FailResponse("timeout")],
                            civic |-> <<>>])} :
       last' = [op |-> "fetch_place", ret |-> r.ret, path |-> r.path, stored |-> r.cache]
  /\ UNCHANGED <<fetcher_vars, embedder_vars, run>>

NextGeometry == GetGeometry \/ FetchNamedWay

SpecGeometry == InitGeometry /\ [][NextGeometry]_vars

\* ------------------------------------------------------------------------
\* Properties of _get_geometry
\* ------------------------------------------------------------------------
\* the element query names a way with a name tag, and the name query returns
\* an element with two points or more, inside Rome
NamedWayAnswered ==
  /\ Readable(args.tags)
  /\ args.tags.items # <<>>
  /\ args.tags.items[1].type = "way"
  /\ args.tags.items[1].has_name
  /\ Readable(args.byname)
  /\ \E i \in 1..Len(args.byname.items) :
       /\ Len(args.byname.items[i].geometry) >= 2
       /\ \A k \in 1..Len(args.byname.items[i].geometry) :
            InsideBbox(args.byname.items[i].geometry[k], RomeConfig.default_bbox)

\* C26: when Nominatim names a way with a name and the name query returns an
\* element with two points or more, _get_geometry returns a LineString or a
\* Polygon, and fetch_place succeeds on the variant path and caches it.
C26_NamedWayResolved ==
  NamedWayAnswered =>
    /\ last.op = "_get_geometry" =>
         \E i \in 1..Len(last.result.geometries) :
           last.result.geometries[i].type \in {"LineString", "Polygon"}
    /\ last.op = "fetch_place" =>
         /\ last.ret = "True"
         /\ last.path = "variant"
         /\ CacheHit(last.stored, CacheKey("RM", ViaRoma))

\* ------------------------------------------------------------------------
\* get_place_data applied to catalogs with keys of several cities
\* ------------------------------------------------------------------------
\* the keys a name can be stored under: bare, Rome's and Milan's
LookupKeys == <<NameA, CacheKey("RM", NameA), CacheKey("MI", NameA),
                NameB, CacheKey("RM", NameB), CacheKey("MI", NameB)>>

\* the entry stored under the i-th key names its key in its geometry, so that
\* entries under different keys differ
LookupEntry(i) ==
  [type |-> "street",
   geometries |-> <<Point(<<PEsq[1] + i, PEsq[2]>>)>>]

RECURSIVE LookupCatalog(_, _)
LookupCatalog(present, i) ==
  IF i > Len(LookupKeys) THEN <<>>
  ELSE (IF i \in present THEN <<[k |-> LookupKeys[i], v |-> LookupEntry(i)]>> ELSE <<>>)
       \o LookupCatalog(present, i + 1)

LookupCatalogs == {LookupCatalog(present, 1) : present \in SUBSET (1..Len(LookupKeys))}
LookupCities == {RomeConfig, MilanConfig, NoCity}

InitLookup ==
  /\ places_catalog \in LookupCatalogs
  /\ args = <<>>
  /\ specification = <<>>
  /\ cache = <<>>
  /\ stats = ZeroStats
  /\ disk = NoFile
  /\ last = NoCall
  /\ queried = [key \in FetchCities \X FetchNames |-> 0]
  /\ calls = 0
  /\ run = NoRun

\* one call of get_place_data
GetPlaceData ==
  \E place_name \in {NameA, NameB}, city_config \in LookupCities :
    /\ last' = [op |-> "get_place_data", place_name |-> place_name,
                city_config |-> city_config,
                result |-> get_place_data(places_catalog, place_name, city_config)]
    /\ UNCHANGED <<fetcher_vars, embedder_vars, run>>

NextLookup == GetPlaceData

SpecLookup == InitLookup /\ [][NextLookup]_vars

\* ------------------------------------------------------------------------
\* Properties of get_place_data
\* ------------------------------------------------------------------------
\* the entries the catalog holds for the name under the bare key and under
\* the key of the city
OwnEntries(catalog, place_name, city_config) ==
  {catalog[i].v : i \in {j \in 1..Len(catalog) :
      \/ catalog[j].k = place_name
      \/ /\ HasKey(CITY_PREFIXES, city_config.city_name)
         /\ catalog[j].k = CacheKey(Get(CITY_PREFIXES, city_config.city_name), place_name)}}

\* C27: with a detected city, get_place_data returns the entry stored under
\* the bare name or under the city's own prefixed key, and None otherwise; it
\* never returns an entry stored under another city's prefix.
C27_OwnCityOnly ==
  (last.op = "get_place_data" /\ last.city_config # NoCity) =>
    \/ last.result = NoData
    \/ last.result \in OwnEntries(places_catalog, last.place_name, last.city_config)

\* ------------------------------------------------------------------------
\* Properties of the counters of fetch_place
\* ------------------------------------------------------------------------
\* self.stats['fetched'] + self.stats['cached'] + self.stats['failed']
Outcomes(self_stats) == self_stats.fetched + self_stats.cached + self_stats.failed

\* C30: every call of fetch_place that returns adds one to exactly one of
\* 'fetched', 'cached' and 'failed', and returns True exactly when that one is
\* 'fetched' or 'cached'; the three counters start at zero with the process
\* and no other step changes their sum, so that their sum is the number of
\* calls the process completed.
C30_OneOutcomePerCall ==
  [][ /\ IsFetch =>
           /\ \E f \in {"fetched", "cached", "failed"} :
                /\ stats'[f] = stats[f] + 1
                /\ \A g \in {"fetched", "cached", "failed"} \ {f} : stats'[g] = stats[g]
                /\ last'.ret = "True" <=> f \in {"fetched", "cached"}
           /\ last'.ret \in {"True", "False"}
      /\ ~IsFetch => (Outcomes(stats') = Outcomes(stats) \/ Outcomes(stats') = 0) ]_vars

C30_Witness ==
  /\ last.op = "fetch_place" /\ last.ret = "False"
  /\ calls = 2
  /\ stats.failed = 1 /\ stats.fetched = 1 /\ stats.cached = 0

====
